---- MODULE Spec2Model ----
(***************************************************************************)
(* A model of phyloage: the indentation based tree reader and writer       *)
(* (package phylotree), the age and confidence estimator (CalculateAge,    *)
(* avgCalculator) and the modal haplotype engine (maximum parsimony,       *)
(* averaging, mapping to real world marker values).                        *)
(*                                                                         *)
(* float64 values are modelled as exact fractions <<n, d>> in lowest terms *)
(* with d > 0; the three IEEE specials are <<0, 0>> (NaN), <<1, 0>> (+Inf) *)
(* and <<-1, 0>> (-Inf).  Strings of the tree file are modelled as the     *)
(* list of their comma separated, trimmed tokens.                          *)
(***************************************************************************)
EXTENDS Integers, Sequences, FiniteSets, TLC

VARIABLES
    pc,       \* position in the run of main()
    file,     \* the lines of the input file
    tree,     \* the tree the run works on (result of NewFromFile)
    err,      \* the error NewFromFile returned
    aged,     \* TRUE once CalculateAge has run on tree
    out,      \* the text written by Clade.String()
    tree2,    \* the tree read back from out
    err2,     \* the error of reading out back
    params,   \* command line options of the run
    fed,      \* the entry lists handed to avgCalculator.avg, in call order
    stat,     \* the marker statistics of the persons (result of NewStatistics)
    stage,    \* the -stage option
    infinite, \* the -model option: TRUE for the infinite alleles model
    valuesIn, \* a list of marker values given to maxParsimony
    modalOut, \* the value maxParsimony returned for valuesIn
    children, \* a list of persons given to averageHaplotype
    targetIn, \* a marker value given to closestKey
    mappingIn \* the mapping option given to constrainHaplotype

vars == <<pc, file, tree, err, aged, out, tree2, err2, params, fed,
          stat, stage, infinite, valuesIn, modalOut, children, targetIn, mappingIn>>

\* The variables the modal haplotype engine works with.
modalVars == <<stat, stage, infinite, valuesIn, modalOut, children, targetIn, mappingIn>>

-----------------------------------------------------------------------------
(* float64 arithmetic on fractions *)

Abs(x) == IF x < 0 THEN -x ELSE x

Sign(x) == IF x > 0 THEN 1 ELSE IF x < 0 THEN -1 ELSE 0

RECURSIVE Gcd(_, _)
Gcd(a, b) == IF b = 0 THEN a ELSE Gcd(b, a % b)

Norm(n, d) ==
    IF d = 0 THEN <<Sign(n), 0>>
    ELSE LET g == Gcd(Abs(n), Abs(d))
             s == Sign(d)
         IN  <<(s * n) \div g, (s * d) \div g>>

NaN == <<0, 0>>
PInf == <<1, 0>>
NInf == <<-1, 0>>
I(n) == <<n, 1>>
Zero == <<0, 1>>
One == <<1, 1>>

IsNaN(x) == x = NaN
Finite(x) == x[2] /= 0

Neg(x) == <<-x[1], x[2]>>

Add(x, y) ==
    IF x[2] = 1 /\ y[2] = 1 THEN <<x[1] + y[1], 1>>
    ELSE IF IsNaN(x) \/ IsNaN(y) THEN NaN
    ELSE IF ~Finite(x) THEN (IF ~Finite(y) /\ y /= x THEN NaN ELSE x)
    ELSE IF ~Finite(y) THEN y
    ELSE LET g == Gcd(x[2], y[2]) IN
         Norm(x[1] * (y[2] \div g) + y[1] * (x[2] \div g), x[2] * (y[2] \div g))

Sub(x, y) == Add(x, Neg(y))

Mul(x, y) ==
    IF x[2] = 1 /\ y[2] = 1 THEN <<x[1] * y[1], 1>>
    ELSE IF IsNaN(x) \/ IsNaN(y) THEN NaN
    ELSE IF ~Finite(x) \/ ~Finite(y) THEN <<Sign(x[1]) * Sign(y[1]), 0>>
    ELSE IF x[1] = 0 \/ y[1] = 0 THEN Zero
    ELSE LET g == Gcd(Abs(x[1]), y[2])
             h == Gcd(Abs(y[1]), x[2])
         IN  Norm((x[1] \div g) * (y[1] \div h), (x[2] \div h) * (y[2] \div g))

Div(x, y) ==
    IF IsNaN(x) \/ IsNaN(y) THEN NaN
    ELSE IF ~Finite(y) THEN (IF Finite(x) THEN Zero ELSE NaN)
    ELSE IF ~Finite(x) THEN (IF y[1] < 0 THEN Neg(x) ELSE x)
    ELSE IF y[1] = 0 THEN <<Sign(x[1]), 0>>
    ELSE Mul(x, <<Sign(y[1]) * y[2], Abs(y[1])>>)

\* x == y of Go: false whenever a NaN is involved.
Eq(x, y) == ~IsNaN(x) /\ ~IsNaN(y) /\ x = y

\* x < y of Go.
Lt(x, y) ==
    IF x[2] = 1 /\ y[2] = 1 THEN x[1] < y[1]
    ELSE
    /\ ~IsNaN(x)
    /\ ~IsNaN(y)
    /\ x /= y
    /\ IF Finite(x) /\ Finite(y)
       THEN LET g == Gcd(x[2], y[2]) IN x[1] * (y[2] \div g) < y[1] * (x[2] \div g)
       ELSE x = NInf \/ y = PInf

Le(x, y) == Lt(x, y) \/ Eq(x, y)
Gt(x, y) == Lt(y, x)
Ge(x, y) == Le(y, x)

AbsQ(x) == <<Abs(x[1]), x[2]>>

\* int(m) of Go for a finite m >= 0.
Floor(x) == x[1] \div x[2]

\* The integer fmt prints for "%.0f": round to nearest, ties to even.
RoundHalfEven(x) ==
    LET f == x[1] \div x[2]
        r == x[1] % x[2]
    IN  IF 2 * r < x[2] THEN f
        ELSE IF 2 * r > x[2] THEN f + 1
        ELSE IF f % 2 = 0 THEN f ELSE f + 1

\* The number written by fmt.Sprintf("%.0f", x), as the number
\* strconv.ParseFloat reads back from that text.
Fmt0(x) == IF Finite(x) THEN I(RoundHalfEven(x)) ELSE x

RECURSIVE SumQ(_)
SumQ(s) == IF s = <<>> THEN Zero ELSE Add(s[1], SumQ(Tail(s)))

-----------------------------------------------------------------------------
(* phylotree: elements of the tree *)

Uncertain == -1
UncertainQ == I(Uncertain)

\* A token of a line: the text between two commas after strings.TrimSpace.
\* k is the prefix the reader looks for ("name" when there is none), s the
\* text after it and v the number that text denotes (s = "" for a numeral).
Tok(k, s, v) == [k |-> k, s |-> s, v |-> v]
Name(s) == Tok("name", s, Zero)
EmptyTok == Name("")
\* The empty string, split at its commas.
EmptyText == <<EmptyTok>>

NilPerson == [nil |-> TRUE, ID |-> "", Y |-> <<>>]

newElement == [SNPs |-> <<>>, STRCount |-> UncertainQ, Person |-> NilPerson]

newSample == [SNPs |-> <<>>, STRCount |-> UncertainQ, Person |-> NilPerson,
              ID |-> ""]

\* The Clade literal newClade starts from: three fields are set to
\* Uncertain, the others keep Go's zero value.
blankClade ==
    [SNPs |-> <<>>, STRCount |-> UncertainQ, Person |-> NilPerson,
     Samples |-> <<>>, Subclades |-> <<>>,
     AgeSTR |-> UncertainQ, STRCountDownstream |-> UncertainQ,
     Sigma2 |-> Zero, TMRCA_STR |-> UncertainQ,
     TMRCAlower |-> Zero, TMRCAupper |-> Zero]

AddSNP(e, name) == [e EXCEPT !.SNPs = Append(@, name)]

AddSample(c, sample) == [c EXCEPT !.Samples = Append(@, sample)]

AddSubclade(c, clade) == [c EXCEPT !.Subclades = Append(@, clade)]

RECURSIVE newSampleLoop(_, _, _)
newSampleLoop(result, tokens, i) ==
    IF i > Len(tokens) THEN [val |-> result, err |-> FALSE]
    ELSE LET token == tokens[i] IN
         IF token.k = "id:"
         THEN newSampleLoop([result EXCEPT !.ID = token.s], tokens, i + 1)
         ELSE IF token.k = "STR-Count:"
         THEN IF token.s /= ""
              THEN [val |-> result, err |-> TRUE]
              ELSE newSampleLoop([result EXCEPT !.STRCount = token.v], tokens, i + 1)
         ELSE newSampleLoop(AddSNP(result, token), tokens, i + 1)

newSampleFromText(text) == newSampleLoop(newSample, text, 1)

RECURSIVE newCladeLoop(_, _, _)
newCladeLoop(result, tokens, i) ==
    IF i > Len(tokens) THEN [val |-> result, err |-> FALSE]
    ELSE LET token == tokens[i] IN
         IF token.k = "STR-Count:"
         THEN IF token.s /= ""
              THEN [val |-> result, err |-> TRUE]
              ELSE newCladeLoop([result EXCEPT !.STRCount = token.v], tokens, i + 1)
         ELSE IF token.k = "TMRCA:"
         THEN newCladeLoop(result, tokens, i + 1)
         ELSE newCladeLoop(AddSNP(result, token), tokens, i + 1)

newClade(text) == newCladeLoop(blankClade, text, 1)

-----------------------------------------------------------------------------
(* phylotree: reading a tree *)

\* A line of a file is [indent, text, comment]: the number of leading white
\* space characters, the tokens in front of a "//" and whether a "//" follows.
Line(indent, text, comment) == [indent |-> indent, text |-> text, comment |-> comment]

\* The text in front of the comment, "" when only white space is left.
stripComments(line) == line.text

countSpaces(line) == line.indent

\* strings.Contains(text, "id:")
ContainsId(text) ==
    \E i \in 1..Len(text) :
        text[i].k = "id:" \/ (text[i].k = "name" /\ text[i].s = "xid:")

NoError == [isErr |-> FALSE, lineNo |-> 0, msg |-> ""]
Error(msg, lineNo) == [isErr |-> TRUE, lineNo |-> lineNo, msg |-> msg]

RECURSIVE parseTree(_, _, _)
RECURSIVE parseLoop(_, _, _, _, _)
parseLoop(parent, indent, childIndent, lines, i) ==
    IF i > Len(lines) THEN [clade |-> parent, err |-> NoError]
    ELSE IF lines[i].indent <= indent THEN [clade |-> parent, err |-> NoError]
    ELSE LET ci == IF childIndent = -1 THEN lines[i].indent ELSE childIndent IN
         IF lines[i].indent /= ci
         THEN parseLoop(parent, indent, ci, lines, i + 1)
         ELSE IF ContainsId(lines[i].text)
         THEN LET r == newSampleFromText(lines[i].text) IN
              IF r.err
              THEN [clade |-> parent, err |-> Error("line", lines[i].lineNo)]
              ELSE parseLoop(AddSample(parent, r.val), indent, ci, lines, i + 1)
         ELSE LET r == newClade(lines[i].text) IN
              IF r.err
              THEN [clade |-> parent, err |-> Error("line", lines[i].lineNo)]
              ELSE LET sub == parseTree(r.val, lines[i].indent,
                                        SubSeq(lines, i + 1, Len(lines)))
                   \* the error parseTree returns here is dropped
                   IN  parseLoop(AddSubclade(parent, sub.clade), indent, ci, lines, i + 1)

parseTree(parent, indent, lines) == parseLoop(parent, indent, -1, lines, 1)

\* The scanner loop of NewFromFile: the lines that are left after
\* stripComments, each with its number in the file.
RECURSIVE readLines(_, _)
readLines(f, lineNo) ==
    IF lineNo > Len(f) THEN <<>>
    ELSE LET text == stripComments(f[lineNo]) IN
         IF text /= EmptyText
         THEN <<[lineNo |-> lineNo, indent |-> countSpaces(f[lineNo]), text |-> text]>>
              \o readLines(f, lineNo + 1)
         ELSE readLines(f, lineNo + 1)

\* nil, the tree NewFromFile returns next to an error.
NoTree == [blankClade EXCEPT !.SNPs = <<Name("<nil>")>>]

\* A slip: a file without lines gives a tree without elements.
NewFromFileEmptyTree(f) ==
    LET lines == readLines(f, 1) IN
    IF Len(lines) = 0 THEN [tree |-> blankClade, err |-> NoError]
    ELSE LET root == newClade(lines[1].text) IN
         IF root.err THEN [tree |-> NoTree, err |-> Error("invalid root element", 0)]
         ELSE LET r == parseTree(root.val, lines[1].indent, Tail(lines)) IN
              IF r.err.isErr
              THEN [tree |-> NoTree, err |-> Error("parsing tree", r.err.lineNo)]
              ELSE [tree |-> r.clade, err |-> NoError]

NewFromFile(f) ==
    LET lines == readLines(f, 1) IN
    IF Len(lines) = 0 THEN [tree |-> NoTree, err |-> Error("empty file", 0)]
    ELSE LET root == newClade(lines[1].text) IN
         IF root.err THEN [tree |-> NoTree, err |-> Error("invalid root element", 0)]
         ELSE LET r == parseTree(root.val, lines[1].indent, Tail(lines)) IN
              IF r.err.isErr
              THEN [tree |-> NoTree, err |-> Error("parsing tree", r.err.lineNo)]
              ELSE [tree |-> r.clade, err |-> NoError]

-----------------------------------------------------------------------------
(* phylotree: writing a tree *)

ElementString(e) ==
    LET n == Len(e.SNPs)
        snps == IF n > 0 THEN e.SNPs ELSE <<>>
        count == Tok("STR-Count:", "", Fmt0(e.STRCount))
    IN  IF Ge(e.STRCount, Zero)
        THEN snps \o <<count>>
        ELSE IF n > 0 THEN snps ELSE EmptyText

SampleString(s) ==
    IF ElementString(s) /= EmptyText
    THEN <<Tok("id:", s.ID, Zero)>> \o ElementString(s)
    ELSE <<Tok("id:", s.ID, Zero)>>

\* "CI:[%.0f, %.0f]" holds a comma, so it makes two tokens.
TimeEstimates(c) ==
    <<Tok("STRs Downstream:", "", Fmt0(c.STRCountDownstream)),
      Tok("formed:", "", Fmt0(c.AgeSTR)),
      Tok("TMRCA:", "", Fmt0(c.TMRCA_STR)),
      Tok("CI:[", "", Fmt0(c.TMRCAlower)),
      Tok("]", "", Fmt0(c.TMRCAupper))>>

RECURSIVE prettyPrint(_, _)
RECURSIVE prettyPrintAll(_, _, _)
prettyPrintAll(clades, indent, i) ==
    IF i > Len(clades) THEN <<>>
    ELSE prettyPrint(clades[i], indent) \o prettyPrintAll(clades, indent, i + 1)

prettyPrint(c, indent) ==
    LET own == IF Ge(c.STRCountDownstream, Zero)
               THEN ElementString(c) \o TimeEstimates(c)
               ELSE ElementString(c)
        samples == [i \in 1..Len(c.Samples) |->
                        Line(indent + 1, SampleString(c.Samples[i]), FALSE)]
    IN  <<Line(indent, own, FALSE)>> \o samples
            \o prettyPrintAll(c.Subclades, indent + 1, 1)

String(c) == prettyPrint(c, 0)

-----------------------------------------------------------------------------
(* phylotree: weighted averages (avgCalculator) *)

\* An entry of avgCalculator.entries.
valueSigma(value, sigma2) == [value |-> value, sigma2 |-> sigma2]

\* a.add(value, sigma2)
add(entries, value, sigma2) == Append(entries, valueSigma(value, sigma2))

RECURSIVE weightsTotal(_, _)
weightsTotal(entries, n) ==
    IF n = 0 THEN Zero
    ELSE Add(weightsTotal(entries, n - 1), Div(entries[n].value, entries[n].sigma2))

\* The weights avg() stores in the entries from entry i on.
RECURSIVE weights(_, _, _)
weights(entries, total, i) ==
    IF i > Len(entries) THEN <<>>
    ELSE <<Div(entries[i].value, Mul(total, entries[i].sigma2))>>
            \o weights(entries, total, i + 1)

RECURSIVE avgSum(_, _, _)
avgSum(entries, ws, n) ==
    IF n = 0 THEN Zero
    ELSE Add(avgSum(entries, ws, n - 1), Mul(entries[n].value, ws[n]))

RECURSIVE sigma2Sum(_, _, _)
sigma2Sum(entries, ws, n) ==
    IF n = 0 THEN Zero
    ELSE Add(sigma2Sum(entries, ws, n - 1), Mul(Mul(entries[n].sigma2, ws[n]), ws[n]))

\* The weights of all entries.
entryWeights(entries) == weights(entries, weightsTotal(entries, Len(entries)), 1)

avgWeighted(entries, ws) ==
    [average |-> avgSum(entries, ws, Len(entries)),
     sigma2 |-> sigma2Sum(entries, ws, Len(entries))]

avg(entries) ==
    IF Len(entries) = 0 THEN [average |-> Zero, sigma2 |-> Zero]
    ELSE avgWeighted(entries, entryWeights(entries))

RECURSIVE IsqrtB(_, _, _)
IsqrtB(n, lo, hi) ==
    IF lo >= hi THEN lo
    ELSE LET mid == (lo + hi + 1) \div 2 IN
         IF mid * mid <= n THEN IsqrtB(n, mid, hi) ELSE IsqrtB(n, lo, mid - 1)

\* math.Sqrt, rounded down to a multiple of 1/100 (of 1/10 or 1 for large
\* arguments).
Sqrt(x) ==
    IF IsNaN(x) \/ x = NInf THEN NaN
    ELSE IF x = PInf THEN PInf
    ELSE IF x[1] < 0 THEN NaN
    ELSE LET k == IF x[1] < 200000 THEN 100 ELSE IF x[1] < 20000000 THEN 10 ELSE 1
         IN  Norm(IsqrtB((x[1] * k * k) \div x[2], 0, 46340), k)

poisLows == <<0, 0, 0, 1, 1, 2, 2, 3, 4, 4, 5, 6, 6, 7, 8>>
poisHighs == <<5, 7, 8, 10, 11, 13, 14, 15, 17, 18, 19, 20, 22, 23, 24>>

confidenceIntervalsNormal(m) ==
    IF Lt(m, I(15))
    THEN [lower |-> I(poisLows[Floor(m) + 1]), upper |-> I(poisHighs[Floor(m) + 1])]
    ELSE [lower |-> Add(Sub(m, Mul(I(2), Sqrt(Add(m, One)))), I(2)),
          upper |-> Add(Add(m, Mul(I(2), Sqrt(Add(m, One)))), I(2))]

\* ns * ns is average^2 / sigma2 for sigma2 >= 0.
confidenceIntervals(average, sigma2) ==
    LET m == IF Lt(sigma2, Zero) THEN NaN ELSE Div(Mul(average, average), sigma2)
        ci == confidenceIntervalsNormal(m)
        c == Div(average, m)
    IN  [lower |-> Mul(c, ci.lower), upper |-> Mul(c, ci.upper)]

-----------------------------------------------------------------------------
(* phylotree: Clade.CalculateAge *)

RECURSIVE sumSamples(_, _)
sumSamples(samples, n) ==
    IF n = 0 THEN Zero
    ELSE IF Gt(samples[n].STRCount, Zero)
         THEN Add(sumSamples(samples, n - 1), samples[n].STRCount)
         ELSE sumSamples(samples, n - 1)

\* The entries CalculateAge adds for the samples of c: none or one.
sampleEntries(c) ==
    LET nSamples == I(Len(c.Samples))
        avgSamples == Div(sumSamples(c.Samples, Len(c.Samples)), nSamples)
        sigma2Samples == Div(avgSamples, nSamples)
    IN  IF Len(c.Samples) > 0 /\ Gt(sigma2Samples, Zero)
        THEN add(<<>>, avgSamples, sigma2Samples)
        ELSE <<>>

\* The entries CalculateAge adds for subclades that have their ages.
RECURSIVE subcladeEntries(_, _)
subcladeEntries(subclades, i) ==
    IF i > Len(subclades) THEN <<>>
    ELSE LET subcladeSTRs == Add(subclades[i].STRCount, subclades[i].STRCountDownstream)
             subcladeSigma2 == Add(subclades[i].STRCount, subclades[i].Sigma2)
         IN  (IF Gt(subcladeSigma2, Zero)
              THEN add(<<>>, subcladeSTRs, subcladeSigma2)
              ELSE <<>>) \o subcladeEntries(subclades, i + 1)

\* A slip: the generation time is left out.
setAgesPerGeneration(c, gentime, calibration, offset) ==
    LET ci == confidenceIntervals(c.STRCountDownstream, c.Sigma2)
    IN  [c EXCEPT
            !.TMRCA_STR = Add(Mul(c.STRCountDownstream, calibration), offset),
            !.AgeSTR = Add(Mul(Add(c.STRCount, c.STRCountDownstream), calibration), offset),
            !.TMRCAlower = Add(Mul(ci.lower, calibration), offset),
            !.TMRCAupper = Add(Mul(ci.upper, calibration), offset)]

\* Lines 839-843: the age fields from STRCountDownstream and Sigma2.
setAges(c, gentime, calibration, offset) ==
    LET rate == Mul(gentime, calibration)
        ci == confidenceIntervals(c.STRCountDownstream, c.Sigma2)
    IN  [c EXCEPT
            !.TMRCA_STR = Add(Mul(c.STRCountDownstream, rate), offset),
            !.AgeSTR = Add(Mul(Add(c.STRCount, c.STRCountDownstream), rate), offset),
            !.TMRCAlower = Add(Mul(ci.lower, rate), offset),
            !.TMRCAupper = Add(Mul(ci.upper, rate), offset)]

\* Lines 836-838: c.STRCountDownstream, c.Sigma2 = avgCalc.avg()
setAverage(c, r) == [c EXCEPT !.STRCountDownstream = r.average, !.Sigma2 = r.sigma2]

\* Lines 836-845: the average of the entries, when there are any.
averageAge(c, entries, gentime, calibration, offset) ==
    IF Len(entries) > 0
    THEN setAges(setAverage(c, avg(entries)), gentime, calibration, offset)
    ELSE c

RECURSIVE CalculateAge(_, _, _, _)
RECURSIVE calculateAgeAll(_, _, _, _, _)
calculateAgeAll(subclades, i, gentime, calibration, offset) ==
    IF i > Len(subclades) THEN <<>>
    ELSE <<CalculateAge(subclades[i], gentime, calibration, offset)>>
            \o calculateAgeAll(subclades, i + 1, gentime, calibration, offset)

CalculateAge(c, gentime, calibration, offset) ==
    LET subs == calculateAgeAll(c.Subclades, 1, gentime, calibration, offset)
        entries == sampleEntries(c) \o subcladeEntries(subs, 1)
    IN  averageAge([c EXCEPT !.Subclades = subs], entries, gentime, calibration, offset)

\* What the calls of CalculateAge on a tree handed to avgCalculator, read
\* from the tree they leave behind (the samples are untouched and the
\* subclades carry the values their entries were made of): for each clade, in
\* the order the calls return, the STR-Counts of its samples, the entries it
\* added and the weights avg() gave them.
RECURSIVE strCounts(_, _)
strCounts(samples, i) ==
    IF i > Len(samples) THEN <<>>
    ELSE <<samples[i].STRCount>> \o strCounts(samples, i + 1)

RECURSIVE ageLog(_)
RECURSIVE ageLogAll(_, _)
ageLogAll(subclades, i) ==
    IF i > Len(subclades) THEN <<>>
    ELSE ageLog(subclades[i]) \o ageLogAll(subclades, i + 1)

ageLog(c) ==
    LET entries == sampleEntries(c) \o subcladeEntries(c.Subclades, 1)
    IN  ageLogAll(c.Subclades, 1)
            \o <<[counts |-> strCounts(c.Samples, 1),
                  samples |-> sampleEntries(c),
                  entries |-> entries,
                  weights |-> entryWeights(entries)]>>

-----------------------------------------------------------------------------
(* phylotree: Clade.RecalculateAge, the top down recalculation *)

hasAge(c) == Ge(c.STRCountDownstream, Zero)

\* The calibration that makes the age of c equal to the TMRCA of its parent.
adjustedCalibration(c, calibration, offset, parentTMRCA) ==
    Div(Mul(calibration, Sub(parentTMRCA, offset)), Sub(c.AgeSTR, offset))

RECURSIVE recalculateAge(_, _, _, _, _, _)
RECURSIVE recalculateAgeAll(_, _, _, _, _, _)
recalculateAgeAll(subclades, i, gentime, calibration, offset, parent) ==
    IF i > Len(subclades) THEN <<>>
    ELSE <<recalculateAge(subclades[i], gentime, calibration, offset, parent, TRUE)>>
            \o recalculateAgeAll(subclades, i + 1, gentime, calibration, offset, parent)

recalculateAge(c, gentime, calibration, offset, parent, hasParent) ==
    LET cal == IF hasParent /\ hasAge(parent) /\ hasAge(c)
               THEN adjustedCalibration(c, calibration, offset, parent.TMRCA_STR)
               ELSE calibration
        c1 == IF hasParent /\ hasAge(parent) /\ hasAge(c)
              THEN setAges(c, gentime, cal, offset)
              ELSE c
    IN  [c1 EXCEPT !.Subclades =
            recalculateAgeAll(c.Subclades, 1, gentime, cal, offset, c1)]

RecalculateAge(c, gentime, calibration, offset) ==
    recalculateAge(c, gentime, calibration, offset, c, FALSE)

-----------------------------------------------------------------------------
(* phylotree: maximum parsimony *)

\* A write to the markers of the person of a clade: the markers become
\* markers, and the history H of the person (see Person) gets the step that
\* wrote and the values it left.
written(person, step, markers) ==
    [person EXCEPT !.Y = markers,
                   !.H = Append(@, [step |-> step, Y |-> markers,
                                    marker |-> 0, seen |-> <<>>])]

\* The last write in the history of person gets the marker it was for (0 for
\* a write to all markers) and what the writer had at hand: seen.
seeing(person, marker, seen) ==
    IF Len(person.H) = 0 THEN person
    ELSE [person EXCEPT !.H[Len(person.H)] = [@ EXCEPT !.marker = marker, !.seen = seen]]

\* The number of writes the person of each subclade has got so far.
writesOf(subclades) == [i \in 1..Len(subclades) |-> Len(subclades[i].Person.H)]

stepwiseDist(a, b) == AbsQ(Sub(a, b))

infiniteDist(a, b) == IF Eq(a, b) THEN Zero ELSE One

\* A slip: the two models are taken for each other.
singleDistSwapped(a, b, isInfiniteAlleles) ==
    IF isInfiniteAlleles THEN stepwiseDist(a, b) ELSE infiniteDist(a, b)

singleDist(a, b, isInfiniteAlleles) ==
    IF isInfiniteAlleles THEN infiniteDist(a, b) ELSE stepwiseDist(a, b)

RECURSIVE totalDist(_, _, _, _)
totalDist(x, values, isInfiniteAlleles, n) ==
    IF n = 0 THEN Zero
    ELSE Add(totalDist(x, values, isInfiniteAlleles, n - 1),
             singleDist(x, values[n], isInfiniteAlleles))

isPositive(v) == Gt(v, Zero)

\* A slip: a value that reaches the minimum again makes the result Uncertain.
RECURSIVE maxParsimonyLoopAnyTie(_, _, _, _, _)
maxParsimonyLoopAnyTie(vals, isInfiniteAlleles, i, result, minDist) ==
    IF i > Len(vals) THEN result
    ELSE LET distance == totalDist(vals[i], vals, isInfiniteAlleles, Len(vals)) IN
         IF Lt(distance, minDist)
         THEN maxParsimonyLoopAnyTie(vals, isInfiniteAlleles, i + 1, vals[i], distance)
         ELSE IF Eq(distance, minDist)
         THEN maxParsimonyLoopAnyTie(vals, isInfiniteAlleles, i + 1, UncertainQ, minDist)
         ELSE maxParsimonyLoopAnyTie(vals, isInfiniteAlleles, i + 1, result, minDist)

maxParsimonyAnyTie(values, isInfiniteAlleles) ==
    maxParsimonyLoopAnyTie(SelectSeq(values, isPositive), isInfiniteAlleles, 1, Zero, PInf)

\* A slip: of two values that reach the minimum the first one stays.
RECURSIVE maxParsimonyLoopKeepFirst(_, _, _, _, _)
maxParsimonyLoopKeepFirst(vals, isInfiniteAlleles, i, result, minDist) ==
    IF i > Len(vals) THEN result
    ELSE LET distance == totalDist(vals[i], vals, isInfiniteAlleles, Len(vals)) IN
         IF Lt(distance, minDist)
         THEN maxParsimonyLoopKeepFirst(vals, isInfiniteAlleles, i + 1, vals[i], distance)
         ELSE maxParsimonyLoopKeepFirst(vals, isInfiniteAlleles, i + 1, result, minDist)

\* Lines 149-158: the test of all values.
RECURSIVE maxParsimonyLoop(_, _, _, _, _)
maxParsimonyLoop(vals, isInfiniteAlleles, i, result, minDist) ==
    IF i > Len(vals) THEN result
    ELSE LET distance == totalDist(vals[i], vals, isInfiniteAlleles, Len(vals)) IN
         IF Lt(distance, minDist)
         THEN maxParsimonyLoop(vals, isInfiniteAlleles, i + 1, vals[i], distance)
         ELSE IF Eq(distance, minDist) /\ ~Eq(vals[i], result)
         THEN maxParsimonyLoop(vals, isInfiniteAlleles, i + 1, UncertainQ, minDist)
         ELSE maxParsimonyLoop(vals, isInfiniteAlleles, i + 1, result, minDist)

maxParsimony(values, isInfiniteAlleles) ==
    maxParsimonyLoop(SelectSeq(values, isPositive), isInfiniteAlleles, 1, Zero, PInf)

\* The values of a marker that the samples of c contribute.
RECURSIVE sampleValues(_, _, _)
sampleValues(samples, marker, i) ==
    IF i > Len(samples) THEN <<>>
    ELSE (IF ~samples[i].Person.nil /\ ~Eq(samples[i].Person.Y[marker], Zero)
          THEN <<samples[i].Person.Y[marker]>>
          ELSE <<>>) \o sampleValues(samples, marker, i + 1)

\* The values of a marker that subclades contribute.
RECURSIVE subcladeValues(_, _, _)
subcladeValues(subclades, marker, i) ==
    IF i > Len(subclades) THEN <<>>
    ELSE (IF ~Eq(subclades[i].Person.Y[marker], Zero)
          THEN <<subclades[i].Person.Y[marker]>>
          ELSE <<>>) \o subcladeValues(subclades, marker, i + 1)

isClear(modal) == ~Eq(modal, UncertainQ) /\ ~Eq(modal, Zero)

RECURSIVE recalculateMaxParsimony(_, _, _, _)

\* A slip: all subclades are calculated again with the value of c.
recalculateAllSubclades(c, marker, isInfiniteAlleles) ==
    IF isClear(c.Person.Y[marker])
    THEN [c EXCEPT !.Subclades =
            [i \in 1..Len(c.Subclades) |->
                recalculateMaxParsimony(c.Subclades[i], marker, isInfiniteAlleles, c)]]
    ELSE c

\* Lines 47-53 and 83-89: subclades that are Uncertain are calculated again
\* with the value of c.
recalculateSubclades(c, marker, isInfiniteAlleles) ==
    IF isClear(c.Person.Y[marker])
    THEN [c EXCEPT !.Subclades =
            [i \in 1..Len(c.Subclades) |->
                IF Eq(c.Subclades[i].Person.Y[marker], UncertainQ)
                THEN recalculateMaxParsimony(c.Subclades[i], marker, isInfiniteAlleles, c)
                ELSE c.Subclades[i]]]
    ELSE c

setMarker(c, marker, modal) ==
    [c EXCEPT !.Person = seeing(written(@, "parsimony", [@.Y EXCEPT ![marker] = modal]),
                                marker, writesOf(c.Subclades))]

\* A slip: the subclades of a clade that got its value from its parent are
\* not calculated again.
recalculateOnce(c, marker, isInfiniteAlleles, parent) ==
    setMarker(c, marker,
              maxParsimony(<<parent.Person.Y[marker]>>
                               \o sampleValues(c.Samples, marker, 1)
                               \o subcladeValues(c.Subclades, marker, 1),
                           isInfiniteAlleles))

recalculateMaxParsimony(c, marker, isInfiniteAlleles, parent) ==
    recalculateSubclades(
        setMarker(c, marker,
                  maxParsimony(<<parent.Person.Y[marker]>>
                                   \o sampleValues(c.Samples, marker, 1)
                                   \o subcladeValues(c.Subclades, marker, 1),
                               isInfiniteAlleles)),
        marker, isInfiniteAlleles)

\* Lines 41-53, after the subclades have been calculated.
parsimonyOfChildren(c, marker, isInfiniteAlleles) ==
    recalculateSubclades(
        setMarker(c, marker,
                  maxParsimony(sampleValues(c.Samples, marker, 1)
                                   \o subcladeValues(c.Subclades, marker, 1),
                               isInfiniteAlleles)),
        marker, isInfiniteAlleles)

RECURSIVE calculateMaxParsimony(_, _, _)
calculateMaxParsimony(c, marker, isInfiniteAlleles) ==
    parsimonyOfChildren(
        [c EXCEPT !.Subclades =
            [i \in 1..Len(c.Subclades) |->
                calculateMaxParsimony(c.Subclades[i], marker, isInfiniteAlleles)]],
        marker, isInfiniteAlleles)

RECURSIVE calculateModalHaplotypesLoop(_, _, _)
calculateModalHaplotypesLoop(c, marker, isInfiniteAlleles) ==
    IF marker > Len(c.Person.Y) THEN c
    ELSE calculateModalHaplotypesLoop(calculateMaxParsimony(c, marker, isInfiniteAlleles),
                                      marker + 1, isInfiniteAlleles)

calculateModalHaplotypesMaxParsimony(c, isInfiniteAlleles) ==
    calculateModalHaplotypesLoop(c, 1, isInfiniteAlleles)

-----------------------------------------------------------------------------
(* phylotree: modal haplotypes *)

mapAll == 0
mapCertain == 1
markUncertain == 2

\* The length of genetic.YstrMarkers, an array.
NumMarkers == 2

\* A genetic.Person: its ID and its marker values.  H is no field of the
\* person: it is the history of the writes to the markers, oldest first, each
\* with the step that wrote, the marker values it left, the marker it was
\* for and the number of writes the persons had got that the writer read
\* from (the subclades of the clade, or its parent).  ptr is the object a
\* *genetic.Person points to: <<>> for an object that no element of the
\* tree holds, as new(genetic.Person) makes it.
Person(id, markers) == [nil |-> FALSE, ID |-> id, Y |-> markers, H |-> <<>>, ptr |-> <<>>]

\* new(genetic.Person)
newPerson == Person("", [i \in 1..NumMarkers |-> Zero])

\* &genetic.Person{...} makes a new object for every clade: 0 and then the
\* way from the root to the clade, at.
RECURSIVE dummiesAt(_, _)
dummiesAt(c, at) ==
    [c EXCEPT !.Person = [Person(c.SNPs[1].s, newPerson.Y) EXCEPT !.ptr = <<0>> \o at],
              !.Subclades = [i \in 1..Len(c.Subclades) |->
                                dummiesAt(c.Subclades[i], Append(at, i))]]

populateWithDummies(c) == dummiesAt(c, <<>>)

RECURSIVE samplePersons(_, _)
samplePersons(samples, i) ==
    IF i > Len(samples) THEN <<>>
    ELSE (IF ~samples[i].Person.nil THEN <<samples[i].Person>> ELSE <<>>)
            \o samplePersons(samples, i + 1)

subcladePersons(subclades) ==
    [i \in 1..Len(subclades) |-> subclades[i].Person]

\* sum and count of the values > 0 of a marker.
RECURSIVE sumPositive(_, _, _)
sumPositive(persons, marker, n) ==
    IF n = 0 THEN Zero
    ELSE IF Gt(persons[n].Y[marker], Zero)
         THEN Add(sumPositive(persons, marker, n - 1), persons[n].Y[marker])
         ELSE sumPositive(persons, marker, n - 1)

RECURSIVE countPositive(_, _, _)
countPositive(persons, marker, n) ==
    IF n = 0 THEN 0
    ELSE countPositive(persons, marker, n - 1)
            + (IF Gt(persons[n].Y[marker], Zero) THEN 1 ELSE 0)

\* A slip: the sum of the positive values is divided by the number of persons.
averageHaplotypeOfAll(persons) ==
    IF Len(persons) = 0 THEN newPerson
    ELSE IF Len(persons) = 1 THEN persons[1]
    ELSE [newPerson EXCEPT !.Y =
            [marker \in 1..Len(persons[1].Y) |->
                IF countPositive(persons, marker, Len(persons)) > 0
                THEN Div(sumPositive(persons, marker, Len(persons)), I(Len(persons)))
                ELSE Zero]]

averageHaplotype(persons) ==
    IF Len(persons) = 0 THEN newPerson
    ELSE IF Len(persons) = 1 THEN persons[1]
    ELSE [newPerson EXCEPT !.Y =
            [marker \in 1..Len(persons[1].Y) |->
                IF countPositive(persons, marker, Len(persons)) > 0
                THEN Div(sumPositive(persons, marker, Len(persons)),
                         I(countPositive(persons, marker, Len(persons))))
                ELSE Zero]]

\* A slip: nothing is replaced.
replaceNoUncertains(target, source) == target

\* A slip: all marker values are replaced.
replaceAllMarkers(target, source) ==
    written(target, "average", [i \in 1..Len(target.Y) |-> source.Y[i]])

replaceUncertains(target, source) ==
    written(target, "average",
        [i \in 1..Len(target.Y) |->
            IF Eq(target.Y[i], UncertainQ) THEN source.Y[i] ELSE target.Y[i]])

\* A slip: the person that haplotype has returned becomes the person of the
\* clade, so that a clade with one person in the list holds the object of
\* its sample or of its subclade.
haplotypeOfChildrenShared(c) ==
    LET persons == samplePersons(c.Samples, 1) \o subcladePersons(c.Subclades) IN
    [c EXCEPT !.Person =
        IF Len(persons) = 1
        THEN [persons[1] EXCEPT !.ID = c.SNPs[1].s]
        ELSE seeing(replaceUncertains(c.Person, averageHaplotype(persons)),
                    0, writesOf(c.Subclades))]

\* Lines 110-112, after the subclades have been calculated.
haplotypeOfChildren(c) ==
    [c EXCEPT !.Person =
        seeing(replaceUncertains(c.Person,
                                 averageHaplotype(samplePersons(c.Samples, 1)
                                                      \o subcladePersons(c.Subclades))),
               0, writesOf(c.Subclades))]

\* A slip: a clade is calculated in front of its subclades.
RECURSIVE calculateHaplotypesParentFirst(_)
calculateHaplotypesParentFirst(c) ==
    [haplotypeOfChildren(c) EXCEPT !.Subclades =
        [i \in 1..Len(c.Subclades) |-> calculateHaplotypesParentFirst(c.Subclades[i])]]

\* calculateHaplotypes(averageHaplotype)
RECURSIVE calculateHaplotypes(_)
calculateHaplotypes(c) ==
    haplotypeOfChildren(
        [c EXCEPT !.Subclades =
            [i \in 1..Len(c.Subclades) |-> calculateHaplotypes(c.Subclades[i])]])

\* Lines 205-226: the loop over the keys of the map, in the order keys gives.
\* st is [smallestMutation, greatestMutation, lowDist, highDist].
RECURSIVE closestKeyLoop(_, _, _, _)
closestKeyLoop(target, keys, i, st) ==
    IF i > Len(keys) THEN st
    ELSE LET dist == Sub(keys[i], target) IN
         IF Lt(dist, Zero)
         THEN closestKeyLoop(target, keys, i + 1,
                  IF Lt(AbsQ(dist), st.lowDist)
                  THEN [st EXCEPT !.lowDist = AbsQ(dist), !.smallestMutation = keys[i]]
                  ELSE st)
         ELSE IF Gt(dist, Zero)
         THEN closestKeyLoop(target, keys, i + 1,
                  IF Lt(AbsQ(dist), st.highDist)
                  THEN [st EXCEPT !.highDist = AbsQ(dist), !.greatestMutation = keys[i]]
                  ELSE st)
         ELSE IF Eq(dist, Zero)
         THEN closestKeyLoop(target, keys, i + 1,
                  [smallestMutation |-> keys[i], greatestMutation |-> keys[i],
                   lowDist |-> Zero, highDist |-> Zero])
         ELSE closestKeyLoop(target, keys, i + 1, st)

\* A slip: of two keys that are equally close the greater one is returned.
closestKeyResultGreater(st) ==
    IF Eq(st.smallestMutation, st.greatestMutation)
    THEN [closest |-> st.smallestMutation, isUnique |-> TRUE]
    ELSE IF Eq(st.lowDist, st.highDist)
    THEN [closest |-> st.greatestMutation, isUnique |-> FALSE]
    ELSE IF Lt(st.lowDist, st.highDist)
    THEN [closest |-> st.smallestMutation, isUnique |-> TRUE]
    ELSE [closest |-> st.greatestMutation, isUnique |-> TRUE]

\* Lines 227-240.
closestKeyResult(st) ==
    IF Eq(st.smallestMutation, st.greatestMutation)
    THEN [closest |-> st.smallestMutation, isUnique |-> TRUE]
    ELSE IF Eq(st.lowDist, st.highDist)
    THEN [closest |-> st.smallestMutation, isUnique |-> FALSE]
    ELSE IF Lt(st.lowDist, st.highDist)
    THEN [closest |-> st.smallestMutation, isUnique |-> TRUE]
    ELSE [closest |-> st.greatestMutation, isUnique |-> TRUE]

\* A slip: a target that is not positive is looked up like any other.
closestKeyOfAnyTarget(target, mutations) ==
    closestKeyResult(
        closestKeyLoop(target, mutations, 1,
            [smallestMutation |-> Zero, greatestMutation |-> Zero,
             lowDist |-> PInf, highDist |-> PInf]))

\* mutations is the list of the keys of the map in the order of iteration.
closestKey(target, mutations) ==
    IF Le(target, Zero) THEN [closest |-> target, isUnique |-> TRUE]
    ELSE closestKeyResult(
            closestKeyLoop(target, mutations, 1,
                [smallestMutation |-> Zero, greatestMutation |-> Zero,
                 lowDist |-> PInf, highDist |-> PInf]))

constrainValue(value, key, mapping) ==
    IF key.isUnique \/ mapping = mapAll THEN key.closest
    ELSE IF ~key.isUnique /\ mapping = markUncertain THEN UncertainQ
    ELSE value

constrainHaplotype(person, statistics, mapping) ==
    written(person, IF mapping = markUncertain THEN "mark" ELSE "map",
        [i \in 1..Len(person.Y) |->
            constrainValue(person.Y[i], closestKey(person.Y[i], statistics[i]), mapping)])

\* Lines 171-173, after the subclades have been constrained.
constrainPersons(c, statistics, mapping) ==
    [c EXCEPT !.Person = constrainHaplotype(c.Person, statistics, mapping),
              !.Subclades =
                  [i \in 1..Len(c.Subclades) |->
                      [c.Subclades[i] EXCEPT !.Person =
                          constrainHaplotype(c.Subclades[i].Person, statistics, mapping)]]]

RECURSIVE constrainHaplotypes(_, _, _)
constrainHaplotypes(c, statistics, mapping) ==
    constrainPersons(
        [c EXCEPT !.Subclades =
            [i \in 1..Len(c.Subclades) |->
                constrainHaplotypes(c.Subclades[i], statistics, mapping)]],
        statistics, mapping)

replaceUncertainsWithMapping(target, source, statistics) ==
    written(target, "recalculate",
        [i \in 1..Len(target.Y) |->
            IF ~closestKey(target.Y[i], statistics[i]).isUnique
            THEN closestKey(source.Y[i], statistics[i]).closest
            ELSE target.Y[i]])

\* Lines 248-264.
recalculatePerson(c, parent, statistics) ==
    [c EXCEPT !.Person =
        seeing(replaceUncertainsWithMapping(
                   c.Person,
                   averageHaplotype(<<parent.Person>> \o subcladePersons(c.Subclades)
                                        \o samplePersons(c.Samples, 1)),
                   statistics),
               0, <<Len(parent.Person.H)>>)]

RECURSIVE recalculateModalHaplotypes(_, _, _)

\* Lines 76-78 and 266-268.
recalculateSubcladeHaplotypes(c, statistics) ==
    [c EXCEPT !.Subclades =
        [i \in 1..Len(c.Subclades) |->
            recalculateModalHaplotypes(c.Subclades[i], c, statistics)]]

recalculateModalHaplotypes(c, parent, statistics) ==
    recalculateSubcladeHaplotypes(recalculatePerson(c, parent, statistics), statistics)

\* Lines 49-56.
stage1(c, isInfiniteAlleles) ==
    calculateModalHaplotypesMaxParsimony(populateWithDummies(c), isInfiniteAlleles)

\* Lines 57-60.
stage2(c) == calculateHaplotypes(c)

\* Lines 61-66.
stage3(c, statistics) == constrainHaplotypes(c, statistics, markUncertain)

\* A slip: the subclades are not calculated again.
forceTopHaplotype(c, statistics) ==
    [c EXCEPT !.Person = constrainHaplotype(c.Person, statistics, mapAll)]

\* Lines 72-78, after the call of constrainHaplotypes.
forceHaplotypes(c, statistics) ==
    recalculateSubcladeHaplotypes(
        [c EXCEPT !.Person = constrainHaplotype(c.Person, statistics, mapAll)],
        statistics)

\* Lines 67-79.
stage4(c, statistics) ==
    forceHaplotypes(constrainHaplotypes(c, statistics, mapCertain), statistics)

CalculateModalHaplotypesParsimony(c, statistics, processingStage, isInfiniteAlleles) ==
    IF processingStage < 1 THEN c
    ELSE IF processingStage = 1 THEN stage1(c, isInfiniteAlleles)
    ELSE IF processingStage = 2 THEN stage2(stage1(c, isInfiniteAlleles))
    ELSE IF processingStage = 3 THEN stage3(stage2(stage1(c, isInfiniteAlleles)), statistics)
    ELSE stage4(stage2(stage1(c, isInfiniteAlleles)), statistics)

-----------------------------------------------------------------------------
(* phylotree: Clade.CalculateDistances *)

\* CalculateDistances gets its distance function from main:
\* genetic.DistanceInfiniteAlleles or genetic.DistanceHybrid (package genetic
\* of phylofriend).  They stand here as the number of mutations between two
\* haplotypes by the two models, over the markers both haplotypes have.
distance(ystr1, ystr2, isInfiniteAlleles) ==
    SumQ([i \in 1..Len(ystr1) |->
            IF Gt(ystr1[i], Zero) /\ Gt(ystr2[i], Zero)
            THEN singleDist(ystr1[i], ystr2[i], isInfiniteAlleles)
            ELSE Zero])

\* Lines 782-788: the distances of the samples that have a person.
sampleDistances(c, isInfiniteAlleles) ==
    [i \in 1..Len(c.Samples) |->
        IF ~c.Samples[i].Person.nil
        THEN [c.Samples[i] EXCEPT
                 !.STRCount = distance(c.Samples[i].Person.Y, c.Person.Y, isInfiniteAlleles)]
        ELSE c.Samples[i]]

\* Lines 791-795: the distance of a subclade that has a person.
subcladeDistance(subclade, c, isInfiniteAlleles) ==
    IF ~subclade.Person.nil
    THEN [subclade EXCEPT
             !.STRCount = distance(subclade.Person.Y, c.Person.Y, isInfiniteAlleles)]
    ELSE subclade

RECURSIVE CalculateDistances(_, _)
CalculateDistances(c, isInfiniteAlleles) ==
    IF c.Person.nil THEN c
    ELSE [c EXCEPT
             !.STRCount = Zero,
             !.Samples = sampleDistances(c, isInfiniteAlleles),
             !.Subclades =
                 [i \in 1..Len(c.Subclades) |->
                     subcladeDistance(CalculateDistances(c.Subclades[i], isInfiniteAlleles),
                                      c, isInfiniteAlleles)]]

-----------------------------------------------------------------------------
(* Reading a tree file, calculating ages, writing the tree, reading it back *)

MaxLines == 3
MaxIndent == 2

Count(v) == Tok("STR-Count:", "", v)
BadCount == Tok("STR-Count:", "abc", Zero)
Id(s) == Tok("id:", s, Zero)

\* The texts of the lines that hold an element.
Bodies ==
    { <<Name("A")>>,
      <<Name("B"), Count(<<5, 2>>)>>,
      <<Name("C"), BadCount>>,
      <<Id("1"), Count(I(3))>>,
      <<Id("2"), BadCount>>,
      <<Id("3"), Count(<<1, 4>>)>> }

Lines ==
    { Line(i, b, FALSE) : i \in 0..MaxIndent, b \in Bodies }
        \cup { Line(0, EmptyText, FALSE), Line(0, EmptyText, TRUE) }

Files == UNION { [1..n -> Lines] : n \in 0..MaxLines }

NoParams == [gentime |-> One, calibration |-> One, offset |-> Zero]

InitTree ==
    /\ pc = "input"
    /\ file \in Files
    /\ tree = NoTree
    /\ err = NoError
    /\ aged = FALSE
    /\ out = <<>>
    /\ tree2 = NoTree
    /\ err2 = NoError
    /\ params = NoParams
    /\ fed = <<>>
    /\ stat = <<>>
    /\ stage = 0
    /\ infinite = FALSE
    /\ valuesIn = <<>>
    /\ modalOut = Zero
    /\ children = <<>>
    /\ targetIn = Zero
    /\ mappingIn = mapAll

\* main: tree, err := phylotree.NewFromFile(*treein); exit on an error.
ReadTree ==
    /\ pc = "input"
    /\ LET r == NewFromFile(file) IN
           /\ tree' = r.tree
           /\ err' = r.err
           /\ pc' = IF r.err.isErr THEN "exit" ELSE "tree"
    /\ UNCHANGED <<file, aged, out, tree2, err2, params, fed, modalVars>>

\* main: tree.CalculateAge(*gentime, *cal, *offset)
Age ==
    /\ pc = "tree"
    /\ ~aged
    /\ tree' = CalculateAge(tree, params.gentime, params.calibration, params.offset)
    /\ fed' = ageLog(tree')
    /\ aged' = TRUE
    /\ UNCHANGED <<pc, file, err, out, tree2, err2, params, modalVars>>

\* The comment lines and the blank line main writes in front of the tree.
fileHeader ==
    <<Line(0, EmptyText, TRUE), Line(0, EmptyText, TRUE), Line(0, EmptyText, TRUE),
      Line(0, EmptyText, TRUE), Line(0, EmptyText, FALSE)>>

\* main: the header and tree.String() are written to the output file.
WriteTree ==
    /\ pc = "tree"
    /\ out' = fileHeader \o String(tree)
    /\ pc' = "written"
    /\ UNCHANGED <<file, tree, err, aged, tree2, err2, params, fed, modalVars>>

\* The written file given to NewFromFile again.
ReadBack ==
    /\ pc = "written"
    /\ LET r == NewFromFile(out) IN
           /\ tree2' = r.tree
           /\ err2' = r.err
    /\ pc' = "readback"
    /\ UNCHANGED <<file, tree, err, aged, out, params, fed, modalVars>>

NextTree == ReadTree \/ Age \/ WriteTree \/ ReadBack

SpecTree == InitTree /\ [][NextTree]_vars

-----------------------------------------------------------------------------
(* Calculating ages on trees that carry STR-Counts *)

MaxSamples == 2
MaxSubclades == 2
MaxCount == 2
MaxSTR == 1

\* STR-Counts by index: 0 is a line without STR-Count.
CountOf(k) == IF k = 0 THEN UncertainQ ELSE I(k)
STROf(k) == IF k = 0 THEN UncertainQ ELSE I(k - 1)

\* The STR-Counts of the samples of a clade, in nondecreasing order.
SampleCounts ==
    UNION { { s \in [1..n -> 0..MaxCount] : \A i \in 1..n : \A j \in i..n : s[i] <= s[j] }
            : n \in 0..MaxSamples }

RECURSIVE samplesOf(_, _)
samplesOf(counts, i) ==
    IF i > Len(counts) THEN <<>>
    ELSE <<[newSample EXCEPT !.ID = "s", !.STRCount = CountOf(counts[i])]>>
            \o samplesOf(counts, i + 1)

\* A clade as newClade and parseTree build it.
cladeOf(name, str, counts, subclades) ==
    [blankClade EXCEPT !.SNPs = <<Name(name)>>, !.STRCount = STROf(str),
                       !.Samples = samplesOf(counts, 1), !.Subclades = subclades]

LeafSpecs == (0..(MaxSTR + 1)) \X SampleCounts

leafOf(spec) == cladeOf("B", spec[1], spec[2], <<>>)

RECURSIVE keyOf(_, _)
keyOf(counts, i) ==
    IF i > Len(counts) THEN 0
    ELSE (counts[i] + 1) + (MaxCount + 2) * keyOf(counts, i + 1)

\* Sibling clades are taken in one order only.
Ordered(a, b) ==
    \/ a[1] < b[1]
    \/ a[1] = b[1] /\ keyOf(a[2], 1) <= keyOf(b[2], 1)

SubcladeLists ==
    UNION { { s \in [1..n -> LeafSpecs] : \A i \in 1..n : \A j \in i..n : Ordered(s[i], s[j]) }
            : n \in 0..MaxSubclades }

RECURSIVE leavesOf(_, _)
leavesOf(specs, i) ==
    IF i > Len(specs) THEN <<>>
    ELSE <<leafOf(specs[i])>> \o leavesOf(specs, i + 1)

\* The root comes without STR-Count or with the largest one.
RootSTRs == {0, MaxSTR + 1}

\* Trees of depth two, and chains of three clades.
AgeShapes ==
    { <<"flat", str, counts, subs>>
        : str \in RootSTRs, counts \in SampleCounts, subs \in SubcladeLists }
    \cup
    { <<"chain", str, m, l>> : str \in RootSTRs, m \in LeafSpecs, l \in LeafSpecs }

treeOf(shape) ==
    IF shape[1] = "flat"
    THEN cladeOf("A", shape[2], shape[3], leavesOf(shape[4], 1))
    ELSE cladeOf("A", shape[2], <<>>,
                 <<cladeOf("B", shape[3][1], shape[3][2], <<leafOf(shape[4])>>)>>)

\* main: -gentime 2 -cal 1.5 -offset 5
AgeParams == [gentime |-> I(2), calibration |-> <<3, 2>>, offset |-> I(5)]

InitAge ==
    /\ pc = "tree"
    /\ file = <<>>
    /\ \E shape \in AgeShapes : tree = treeOf(shape)
    /\ err = NoError
    /\ aged = FALSE
    /\ out = <<>>
    /\ tree2 = NoTree
    /\ err2 = NoError
    /\ params = AgeParams
    /\ fed = <<>>
    /\ stat = <<>>
    /\ stage = 0
    /\ infinite = FALSE
    /\ valuesIn = <<>>
    /\ modalOut = Zero
    /\ children = <<>>
    /\ targetIn = Zero
    /\ mappingIn = mapAll

\* main: tree.RecalculateAge(*gentime, *cal, *offset), when -topdown is set.
Recalculate ==
    /\ pc = "tree"
    /\ aged
    /\ tree' = RecalculateAge(tree, params.gentime, params.calibration, params.offset)
    /\ pc' = "recalculated"
    /\ UNCHANGED <<file, err, aged, out, tree2, err2, params, fed, modalVars>>

NextAge == Age \/ Recalculate

SpecAge == InitAge /\ [][NextAge]_vars

\* The clades of a tree in the order the calls of CalculateAge return.
RECURSIVE cladesOf(_)
RECURSIVE cladesOfAll(_, _)
cladesOfAll(subclades, i) ==
    IF i > Len(subclades) THEN <<>>
    ELSE cladesOf(subclades[i]) \o cladesOfAll(subclades, i + 1)

cladesOf(c) == cladesOfAll(c.Subclades, 1) \o <<c>>

-----------------------------------------------------------------------------
(* The documented runs: tree files that hold STR-Counts only *)

\* The line of a clade, with its STR-Count when it has one.
cladeLine(indent, name, count) ==
    Line(indent,
         IF count = Uncertain THEN <<Name(name)>> ELSE <<Name(name), Count(I(count))>>,
         FALSE)

sampleLines(indent, counts) ==
    [i \in 1..Len(counts) |-> Line(indent, <<Id("YF"), Count(I(counts[i]))>>, FALSE)]

\* A subclade with its samples, n times.
RECURSIVE subcladeLines(_, _, _)
subcladeLines(n, count, counts) ==
    IF n = 0 THEN <<>>
    ELSE <<cladeLine(4, "S", count)>> \o sampleLines(8, counts)
            \o subcladeLines(n - 1, count, counts)

\* The file of a root with samples, or with n subclades that bear them.
exampleFile(rootCount, n, count, counts) ==
    <<cladeLine(0, "CTS4528", rootCount)>>
        \o (IF n = 0 THEN sampleLines(4, counts) ELSE subcladeLines(n, count, counts))

\* The STR-Counts of the samples in the examples.
ExampleCounts == { <<30, 40>>, <<30, 40, 50>> }

ExampleFiles ==
    { exampleFile(rootCount, n, count, counts) :
        rootCount \in {Uncertain, 0, 2}, n \in 0..2, count \in {Uncertain, 2},
        counts \in ExampleCounts }

\* phyloage -cal 100, and phyloage -gentime 32
ExampleParams ==
    { [gentime |-> One, calibration |-> I(100), offset |-> Zero],
      [gentime |-> I(32), calibration |-> One, offset |-> Zero] }

InitExamples ==
    /\ pc = "input"
    /\ file \in ExampleFiles
    /\ tree = NoTree
    /\ err = NoError
    /\ aged = FALSE
    /\ out = <<>>
    /\ tree2 = NoTree
    /\ err2 = NoError
    /\ params \in ExampleParams
    /\ fed = <<>>
    /\ stat = <<>>
    /\ stage = 0
    /\ infinite = FALSE
    /\ valuesIn = <<>>
    /\ modalOut = Zero
    /\ children = <<>>
    /\ targetIn = Zero
    /\ mappingIn = mapAll

SpecExamples == InitExamples /\ [][NextTree]_vars

-----------------------------------------------------------------------------
(* Calculating modal haplotypes on trees that carry persons *)

MaxValue == 3

\* The number of a sample without person, as InsertPersons leaves it when no
\* ID matches.
NoPerson == MaxValue + 1

\* The marker values of the person with number v: v, v + 1, ... up to
\* MaxValue and then from 0 (the marker has no value) again.
haplotypeOf(v) == [i \in 1..NumMarkers |-> I((v + i - 1) % (MaxValue + 1))]

sampleIds == <<"s1", "s2", "s3", "s4">>

sampleWith(v, id) ==
    [newSample EXCEPT !.ID = id,
                      !.Person = IF v = NoPerson THEN NilPerson
                                 ELSE Person(id, haplotypeOf(v))]

\* The persons of the samples of a clade, in nondecreasing order.
PersonLists ==
    UNION { { s \in [1..n -> 0..NoPerson] :
                \A i \in 1..n : \A j \in i..n : s[i] <= s[j] }
            : n \in 0..MaxSamples }

modalClade(name, persons, subclades) ==
    [blankClade EXCEPT !.SNPs = <<Name(name)>>,
                       !.Samples = [i \in 1..Len(persons) |->
                                       sampleWith(persons[i], sampleIds[i])],
                       !.Subclades = subclades]

RECURSIVE listKey(_, _)
listKey(persons, i) ==
    IF i > Len(persons) THEN 0
    ELSE (persons[i] + 1) + (MaxValue + 3) * listKey(persons, i + 1)

\* The lists of PersonLists in which every sample has its person.
LoadedLists == { p \in PersonLists : \A i \in 1..Len(p) : p[i] /= NoPerson }

\* Sibling clades are taken in one order only.
ModalSubclades ==
    UNION { { s \in [1..n -> LoadedLists] :
                \A i \in 1..n : \A j \in i..n : listKey(s[i], 1) <= listKey(s[j], 1) }
            : n \in 0..MaxSubclades }

\* Trees of depth two and chains of three clades, the root with one sample
\* at most, which may be without person.
ModalShapes ==
    { <<"flat", persons, subs>>
        : persons \in { p \in PersonLists : Len(p) <= 1 }, subs \in ModalSubclades }
    \cup
    { <<"chain", persons, m, l>>
        : persons \in { p \in PersonLists : Len(p) <= 1 },
          m \in LoadedLists, l \in LoadedLists }

\* Every person of the files of -personsin is an object of its own: 1, the
\* way from the root to the clade, at, and the place of the sample.
RECURSIVE loadedAt(_, _)
loadedAt(c, at) ==
    [c EXCEPT !.Samples =
                  [i \in 1..Len(c.Samples) |->
                      IF c.Samples[i].Person.nil THEN c.Samples[i]
                      ELSE [c.Samples[i] EXCEPT
                               !.Person.ptr = <<1>> \o Append(at, i)]],
              !.Subclades =
                  [i \in 1..Len(c.Subclades) |->
                      loadedAt(c.Subclades[i], Append(at, i))]]

modalTree(shape) ==
    loadedAt(
        IF shape[1] = "flat"
        THEN modalClade("A", shape[2],
                        [i \in 1..Len(shape[3]) |-> modalClade("B", shape[3][i], <<>>)])
        ELSE modalClade("A", shape[2],
                        <<modalClade("B", shape[3], <<modalClade("C", shape[4], <<>>)>>)>>),
        <<>>)

\* main: the persons read from the files of -personsin, here the persons
\* of the samples of the tree.
RECURSIVE loadedPersons(_)
RECURSIVE loadedPersonsAll(_, _)
loadedPersonsAll(subclades, i) ==
    IF i > Len(subclades) THEN <<>>
    ELSE loadedPersons(subclades[i]) \o loadedPersonsAll(subclades, i + 1)

loadedPersons(c) == samplePersons(c.Samples, 1) \o loadedPersonsAll(c.Subclades, 1)

RECURSIVE ascending(_)
ascending(S) ==
    IF S = {} THEN <<>>
    ELSE LET m == CHOOSE x \in S : \A y \in S : Le(x, y)
         IN  <<m>> \o ascending(S \ {m})

\* genetic.NewStatistics(persons): for every marker the values that occur.
NewStatistics(persons) ==
    [marker \in 1..NumMarkers |->
        ascending({ persons[i].Y[marker] : i \in 1..Len(persons) } \ {Zero})]

InitModal ==
    /\ pc = "persons"
    /\ file = <<>>
    /\ \E shape \in ModalShapes :
           /\ tree = modalTree(shape)
           /\ stat = NewStatistics(loadedPersons(modalTree(shape)))
    /\ err = NoError
    /\ aged = FALSE
    /\ out = <<>>
    /\ tree2 = NoTree
    /\ err2 = NoError
    /\ params = NoParams
    /\ fed = <<>>
    /\ stage = 0
    /\ infinite = FALSE
    /\ valuesIn = <<>>
    /\ modalOut = Zero
    /\ children = <<>>
    /\ targetIn = Zero
    /\ mappingIn = mapAll

\* main: tree.CalculateModalHaplotypesParsimony(stat, *stage, isInfiniteAlleles)
Modal ==
    /\ pc = "persons"
    /\ \E processingStage \in 0..4, isInfiniteAlleles \in BOOLEAN :
           /\ stage' = processingStage
           /\ infinite' = isInfiniteAlleles
           /\ tree' = CalculateModalHaplotypesParsimony(tree, stat, processingStage,
                                                        isInfiniteAlleles)
    /\ pc' = "modal"
    /\ UNCHANGED <<file, err, aged, out, tree2, err2, params, fed, stat, valuesIn, modalOut,
                   children, targetIn, mappingIn>>

NextModal == Modal

SpecModal == InitModal /\ [][NextModal]_vars

-----------------------------------------------------------------------------
(* The run of main with persons: modal haplotypes, distances, ages *)

\* main: tree.CalculateDistances(mutationRates, distance), the distance
\* function chosen by -model.
Distances ==
    /\ pc = "modal"
    /\ tree' = CalculateDistances(tree, infinite)
    /\ pc' = "tree"
    /\ UNCHANGED <<file, err, aged, out, tree2, err2, params, fed, modalVars>>

\* The trees of the run: those of ModalShapes with one sample at most in
\* each clade of a chain.
PipelineShapes ==
    { shape \in ModalShapes :
        shape[1] = "chain" => (Len(shape[3]) <= 1 /\ Len(shape[4]) <= 1) }

InitPipeline ==
    /\ pc = "persons"
    /\ file = <<>>
    /\ \E shape \in PipelineShapes :
           /\ tree = modalTree(shape)
           /\ stat = NewStatistics(loadedPersons(modalTree(shape)))
    /\ err = NoError
    /\ aged = FALSE
    /\ out = <<>>
    /\ tree2 = NoTree
    /\ err2 = NoError
    /\ params = NoParams
    /\ fed = <<>>
    /\ stage = 0
    /\ infinite = FALSE
    /\ valuesIn = <<>>
    /\ modalOut = Zero
    /\ children = <<>>
    /\ targetIn = Zero
    /\ mappingIn = mapAll

NextPipeline == Modal \/ Distances \/ Age

SpecPipeline == InitPipeline /\ [][NextPipeline]_vars

-----------------------------------------------------------------------------
(* maxParsimony on lists of values *)

MaxValues == 4

\* Lists of marker values; 0 and Uncertain do not contribute.
ValueLists == UNION { [1..n -> Uncertain..(MaxValue + 1)] : n \in 0..MaxValues }

InitParsimony ==
    /\ pc = "values"
    /\ file = <<>>
    /\ tree = NoTree
    /\ err = NoError
    /\ aged = FALSE
    /\ out = <<>>
    /\ tree2 = NoTree
    /\ err2 = NoError
    /\ params = NoParams
    /\ fed = <<>>
    /\ stat = <<>>
    /\ stage = 0
    /\ infinite \in BOOLEAN
    /\ \E list \in ValueLists : valuesIn = [i \in 1..Len(list) |-> I(list[i])]
    /\ modalOut = Zero
    /\ children = <<>>
    /\ targetIn = Zero
    /\ mappingIn = mapAll

\* modal := maxParsimony(values, isInfiniteAlleles)
Parsimony ==
    /\ pc = "values"
    /\ modalOut' = maxParsimony(valuesIn, infinite)
    /\ pc' = "parsimony"
    /\ UNCHANGED <<file, tree, err, aged, out, tree2, err2, params, fed,
                   stat, stage, infinite, valuesIn, children, targetIn, mappingIn>>

NextParsimony == Parsimony

SpecParsimony == InitParsimony /\ [][NextParsimony]_vars

-----------------------------------------------------------------------------
(* The two policies and the nearest neighbour lookup on their own inputs *)

MaxPersons == 3
MaxKey == 5

\* The child with number v of a clade: a sample with the markers of
\* haplotypeOf(v), a subclade whose markers are all Uncertain, or a subclade
\* whose markers are all the average of two neighbouring values.
childOf(v) ==
    IF v = Uncertain THEN Person("u", [i \in 1..NumMarkers |-> UncertainQ])
    ELSE IF v > MaxValue THEN Person("h", [i \in 1..NumMarkers |-> <<2 * MaxValue - 1, 2>>])
    ELSE Person("s", haplotypeOf(v))

ChildLists == UNION { [1..n -> Uncertain..(MaxValue + 1)] : n \in 0..MaxPersons }

\* The keys of a map of marker values, in any order of iteration.
KeyLists ==
    UNION { { s \in [1..n -> 1..MaxKey] : \A i \in 1..n : \A j \in 1..n : s[i] = s[j] => i = j }
            : n \in 0..MaxKey }

\* Uncertain, 0, and the whole and half numbers up to MaxKey + 1/2.
Targets == {UncertainQ, Zero} \cup { Norm(k, 2) : k \in 1..(2 * MaxKey + 1) }

InitAverage ==
    /\ pc = "children"
    /\ file = <<>>
    /\ tree = NoTree
    /\ err = NoError
    /\ aged = FALSE
    /\ out = <<>>
    /\ tree2 = NoTree
    /\ err2 = NoError
    /\ params = NoParams
    /\ fed = <<>>
    /\ stat = <<>>
    /\ stage = 0
    /\ infinite = FALSE
    /\ valuesIn = <<>>
    /\ modalOut = Zero
    /\ \E list \in ChildLists : children = [i \in 1..Len(list) |-> childOf(list[i])]
    /\ targetIn = Zero
    /\ mappingIn = mapAll

InitClosest ==
    /\ pc = "keys"
    /\ file = <<>>
    /\ tree = NoTree
    /\ err = NoError
    /\ aged = FALSE
    /\ out = <<>>
    /\ tree2 = NoTree
    /\ err2 = NoError
    /\ params = NoParams
    /\ fed = <<>>
    /\ \E keys \in KeyLists : stat = <<[i \in 1..Len(keys) |-> I(keys[i])]>>
    /\ stage = 0
    /\ infinite = FALSE
    /\ valuesIn = <<>>
    /\ modalOut = Zero
    /\ children = <<>>
    /\ targetIn \in Targets
    /\ mappingIn = mapAll

\* modal := haplotype(persons), with averageHaplotype
Average ==
    /\ pc = "children"
    /\ modalOut' = averageHaplotype(children)
    /\ pc' = "average"
    /\ UNCHANGED <<file, tree, err, aged, out, tree2, err2, params, fed,
                   stat, stage, infinite, valuesIn, children, targetIn, mappingIn>>

\* closest, isUnique := closestKey(person.YstrMarkers[i], ...ValuesOccurrences)
Closest ==
    /\ pc = "keys"
    /\ modalOut' = closestKey(targetIn, stat[1])
    /\ pc' = "closest"
    /\ UNCHANGED <<file, tree, err, aged, out, tree2, err2, params, fed,
                   stat, stage, infinite, valuesIn, children, targetIn, mappingIn>>

InitPolicy == InitParsimony \/ InitAverage \/ InitClosest

NextPolicy == Parsimony \/ Average \/ Closest

SpecPolicy == InitPolicy /\ [][NextPolicy]_vars

-----------------------------------------------------------------------------
(* constrainHaplotype on its own inputs *)

\* The keys of a map of marker values, in ascending order.
KeySets == { keys \in KeyLists : \A i \in 1..Len(keys) : \A j \in i..Len(keys) : keys[i] <= keys[j] }

\* A person with any marker values, any map of marker values (the same for
\* every marker) and any mapping option.
InitSnap ==
    /\ pc = "person"
    /\ file = <<>>
    /\ tree = NoTree
    /\ err = NoError
    /\ aged = FALSE
    /\ out = <<>>
    /\ tree2 = NoTree
    /\ err2 = NoError
    /\ params = NoParams
    /\ fed = <<>>
    /\ \E keys \in KeySets :
           stat = [marker \in 1..NumMarkers |-> [i \in 1..Len(keys) |-> I(keys[i])]]
    /\ stage = 0
    /\ infinite = FALSE
    /\ valuesIn \in [1..NumMarkers -> Targets]
    /\ modalOut = Zero
    /\ children = <<Person("p", valuesIn)>>
    /\ targetIn = Zero
    /\ mappingIn \in {mapAll, mapCertain, markUncertain}

\* constrainHaplotype(persons[i], statistics, mapping): constrainHaplotypes
\* calls it for the person of a clade that is not the root a second time.
Constrain ==
    /\ pc \in {"person", "constrained"}
    /\ children' = <<constrainHaplotype(children[1], stat, mappingIn)>>
    /\ pc' = IF pc = "person" THEN "constrained" ELSE "constrained again"
    /\ UNCHANGED <<file, tree, err, aged, out, tree2, err2, params, fed,
                   stat, stage, infinite, valuesIn, modalOut, targetIn, mappingIn>>

NextSnap == Constrain

SpecSnap == InitSnap /\ [][NextSnap]_vars

-----------------------------------------------------------------------------
(* Properties of the age calculation *)

RECURSIVE ParentNeverYounger(_)
ParentNeverYounger(c) ==
    \A i \in 1..Len(c.Subclades) :
        /\ (hasAge(c) /\ hasAge(c.Subclades[i]))
                => Le(c.Subclades[i].TMRCA_STR, c.TMRCA_STR)
        /\ ParentNeverYounger(c.Subclades[i])

allEqual(entries) ==
    \A i \in 1..Len(entries) : entries[i] = entries[1]

\* C7: the weights avg() computes for the entries CalculateAge feeds it sum
\* to 1, and entries that all have the same value and variance get the
\* weight 1/N each.
C7_WeightsNormalised ==
    \A k \in 1..Len(fed) :
        LET entries == fed[k].entries
            ws == fed[k].weights
        IN  Len(entries) > 0 =>
                /\ SumQ(ws) = One
                /\ allEqual(entries) =>
                        \A i \in 1..Len(ws) : ws[i] = <<1, Len(entries)>>

isKnown(count) == Ge(count, Zero)

knownCounts(counts) == SelectSeq(counts, isKnown)

\* The entry for the samples as the mean over the known counts.
knownSampleEntries(counts) ==
    LET known == knownCounts(counts)
        mean == Div(SumQ(known), I(Len(known)))
        variance == Div(mean, I(Len(known)))
    IN  IF Len(known) > 0 /\ Gt(variance, Zero)
        THEN <<valueSigma(mean, variance)>>
        ELSE <<>>

\* C8: the entry CalculateAge adds for the samples of a clade is the mean of
\* the known STR-Counts, with the mean divided by the number of known counts
\* as variance, added exactly when that variance is positive.
C8_SampleAggregate ==
    \A k \in 1..Len(fed) : fed[k].samples = knownSampleEntries(fed[k].counts)

\* C9: a clade for which CalculateAge added no entry keeps its downstream
\* estimate, its variance, its TMRCA and its formed age Uncertain.
C9_NoEntryLeavesUnset ==
    (pc = "tree" /\ aged) =>
        \A k \in 1..Len(fed) :
            fed[k].entries = <<>> =>
                LET c == cladesOf(tree)[k]
                IN  /\ c.STRCountDownstream = UncertainQ
                    /\ c.Sigma2 = UncertainQ
                    /\ c.TMRCA_STR = UncertainQ
                    /\ c.AgeSTR = UncertainQ

-----------------------------------------------------------------------------
(* Properties of reading and writing *)

sameElement(a, b) == a.SNPs = b.SNPs /\ a.STRCount = b.STRCount

sameSample(a, b) == sameElement(a, b) /\ a.ID = b.ID

RECURSIVE SameStructure(_, _)
SameStructure(a, b) ==
    /\ sameElement(a, b)
    /\ Len(a.Samples) = Len(b.Samples)
    /\ \A i \in 1..Len(a.Samples) : sameSample(a.Samples[i], b.Samples[i])
    /\ Len(a.Subclades) = Len(b.Subclades)
    /\ \A i \in 1..Len(a.Subclades) : SameStructure(a.Subclades[i], b.Subclades[i])

\* C3: a tree that was read, written without statistics and read again has
\* the shape it had after the first reading, and every element has the same
\* marker names, sample ID and STR-Count.
C3_RoundTrip ==
    (pc = "readback" /\ ~aged) => (~err2.isErr /\ SameStructure(tree, tree2))

RECURSIVE SameClades(_, _)
SameClades(a, b) ==
    /\ sameElement(a, b)
    /\ Len(a.Subclades) = Len(b.Subclades)
    /\ \A i \in 1..Len(a.Subclades) : SameClades(a.Subclades[i], b.Subclades[i])

RECURSIVE someAge(_)
someAge(c) == hasAge(c) \/ \E i \in 1..Len(c.Subclades) : someAge(c.Subclades[i])

\* C4: a tree written with the statistics CalculateAge has set is read back
\* with the same marker names and STR-Count on every clade.
C4_RoundTripAnnotated ==
    (pc = "readback" /\ aged /\ someAge(tree))
        => (~err2.isErr /\ SameClades(tree, tree2))

isRetained(line) == line.text /= EmptyText

hasBadCount(line) ==
    \E i \in 1..Len(line.text) : line.text[i].k = "STR-Count:" /\ line.text[i].s /= ""

badLines(f) == { i \in 1..Len(f) : isRetained(f[i]) /\ hasBadCount(f[i]) }

\* C5: when a retained line of the file has an STR-Count that is not a number,
\* NewFromFile returns an error with the number of such a line and no tree.
C5_BadCountIsError ==
    (pc /= "input" /\ badLines(file) /= {})
        => (err.isErr /\ err.lineNo \in badLines(file) /\ tree = NoTree)

\* C6: for a file without retained lines NewFromFile returns an error and no
\* tree.
C6_EmptyFileIsError ==
    (pc /= "input" /\ \A i \in 1..Len(file) : ~isRetained(file[i]))
        => (pc = "exit" /\ err.isErr /\ tree = NoTree)

\* A file of blank and comment lines has been refused.
C6_Witness ==
    /\ pc = "exit"
    /\ Len(file) > 1
    /\ \A i \in 1..Len(file) : ~isRetained(file[i])
    /\ \E i \in 1..Len(file) : file[i].comment
    /\ err.msg = "empty file"

-----------------------------------------------------------------------------
(* Properties of the modal haplotypes *)

RECURSIVE noUncertain(_)
noUncertain(c) ==
    /\ \A i \in 1..Len(c.Person.Y) : c.Person.Y[i] /= UncertainQ
    /\ \A i \in 1..Len(c.Subclades) : noUncertain(c.Subclades[i])

\* C2: after CalculateModalHaplotypesParsimony has run with stage 4, no marker
\* of the modal haplotype of any clade is Uncertain.
C2_NoUncertainAfterStage4 ==
    (pc = "modal" /\ stage = 4) => noUncertain(tree)

\* Stage 4 has run on a tree in which stage 1 left a marker of the root and
\* a marker of a subclade Uncertain.
C2_Witness ==
    /\ pc = "modal"
    /\ stage = 4
    /\ noUncertain(tree)
    /\ \E i \in 1..NumMarkers : stage1(tree, infinite).Person.Y[i] = UncertainQ
    /\ \E k \in 1..Len(tree.Subclades) :
           ~noUncertain(stage1(tree, infinite).Subclades[k])

\* The values of valuesIn that contribute.
contributing == SelectSeq(valuesIn, isPositive)

\* The number of steps from x to all contributing values.
stepsTo(x) == SumQ([i \in 1..Len(contributing) |-> AbsQ(Sub(x, contributing[i]))])

minimisers ==
    { contributing[i] : i \in { j \in 1..Len(contributing) :
        \A k \in 1..Len(contributing) :
            Le(stepsTo(contributing[j]), stepsTo(contributing[k])) } }

\* C10: with the stepwise model maxParsimony returns Uncertain when two or
\* more distinct contributing values have the minimum number of steps to all
\* contributing values, and the value that has it when there is just one.
C10_ParsimonyTieLaw ==
    (pc = "parsimony" /\ ~infinite) =>
        /\ Cardinality(minimisers) >= 2 => modalOut = UncertainQ
        /\ Cardinality(minimisers) = 1 => modalOut \in minimisers

\* maxParsimony has returned Uncertain for four values of which two distinct
\* ones have the minimum.
C10_Witness ==
    /\ pc = "parsimony"
    /\ ~infinite
    /\ Len(contributing) = 4
    /\ Cardinality(minimisers) = 2
    /\ modalOut = UncertainQ

-----------------------------------------------------------------------------
(* Properties of the policies *)

\* The positive values of a marker among the children.
positivesOf(marker) ==
    SelectSeq([i \in 1..Len(children) |-> children[i].Y[marker]], isPositive)

\* C11: when exactly one value that is given to maxParsimony is positive,
\* maxParsimony returns it, and when exactly one person that is given to
\* averageHaplotype has a positive value for a marker, the result has that
\* value for the marker.
C11_SingleValueLaw ==
    /\ (pc = "parsimony" /\ Len(contributing) = 1) => modalOut = contributing[1]
    /\ pc = "average" =>
            \A marker \in 1..NumMarkers :
                Len(positivesOf(marker)) = 1
                    => modalOut.Y[marker] = positivesOf(marker)[1]

\* averageHaplotype has returned the only positive value of a marker that
\* three persons hold, one of them with an Uncertain value.
C11_Witness ==
    /\ pc = "average"
    /\ Len(children) = 3
    /\ \E marker \in 1..NumMarkers :
           /\ Len(positivesOf(marker)) = 1
           /\ \E i \in 1..3 : children[i].Y[marker] = UncertainQ
           /\ modalOut.Y[marker] = positivesOf(marker)[1]

\* The keys of the map given to closestKey.
keySet == { stat[1][i] : i \in 1..Len(stat[1]) }

distanceTo(key) == AbsQ(Sub(key, targetIn))

\* The keys that no other key is closer to the target than.
nearestKeys ==
    { k \in keySet : \A j \in keySet : Le(distanceTo(k), distanceTo(j)) }

\* C12: closestKey returns a target <= 0 itself, as unique.  For a target
\* > 0 and a map with keys it returns the key closest to the target as unique
\* when there is one such key (the target itself when it is a key), and the
\* lower of the two closest keys as not unique when the closest key below and
\* the closest key above are equally distant; for 3.5 and the keys 2 and 5
\* it returns 2, not unique.
C12_NearestNeighbour ==
    pc = "closest" =>
        /\ Le(targetIn, Zero) => modalOut = [closest |-> targetIn, isUnique |-> TRUE]
        /\ (Gt(targetIn, Zero) /\ keySet /= {}) =>
              /\ modalOut.closest \in nearestKeys
              /\ \A k \in nearestKeys : Le(modalOut.closest, k)
              /\ modalOut.isUnique <=> Cardinality(nearestKeys) = 1
              /\ targetIn \in keySet => modalOut.closest = targetIn
        /\ (targetIn = <<7, 2>> /\ keySet = {I(2), I(5)})
              => modalOut = [closest |-> I(2), isUnique |-> FALSE]

\* closestKey has returned 2, not unique, for 3.5 and the keys 5 and 2.
C12_Witness ==
    /\ pc = "closest"
    /\ targetIn = <<7, 2>>
    /\ stat[1] = <<I(5), I(2)>>
    /\ modalOut = [closest |-> I(2), isUnique |-> FALSE]

-----------------------------------------------------------------------------
(* Properties of the pipeline of CalculateModalHaplotypesParsimony *)

\* The write number k + 1 to the markers of person leaves no marker
\* Uncertain that held a positive value before it.
keepsResolved(person, k) ==
    \A i \in 1..NumMarkers :
        Gt(person.H[k].Y[i], Zero) => person.H[k + 1].Y[i] /= UncertainQ

\* C13: with any stage from 1 to 4, no write of
\* CalculateModalHaplotypesParsimony to the markers of the person of a clade
\* sets a marker to Uncertain that held a positive value.
C13_NeverRemarked ==
    (pc = "modal" /\ stage >= 1) =>
        \A n \in 1..Len(cladesOf(tree)) :
            LET person == cladesOf(tree)[n].Person
            IN  \A k \in 1..(Len(person.H) - 1) : keepsResolved(person, k)

\* C13 as amended: the same of every write but the marking of stage 3
\* (constrainHaplotype with markUncertain).
C13_NeverRemarkedButByMarking ==
    (pc = "modal" /\ stage >= 1) =>
        \A n \in 1..Len(cladesOf(tree)) :
            LET person == cladesOf(tree)[n].Person
            IN  \A k \in 1..(Len(person.H) - 1) :
                    person.H[k + 1].step /= "mark" => keepsResolved(person, k)

\* Stage 4 has run, and a marker of a subclade that held a positive value
\* which is no value of the table got another positive value by a later write.
C13_Witness ==
    /\ pc = "modal"
    /\ stage = 4
    /\ \E n \in 1..(Len(cladesOf(tree)) - 1) :
           LET person == cladesOf(tree)[n].Person
           IN  \E k \in 1..(Len(person.H) - 1) : \E i \in 1..NumMarkers :
                   /\ Gt(person.H[k].Y[i], Zero)
                   /\ Gt(person.H[k + 1].Y[i], Zero)
                   /\ person.H[k + 1].Y[i] /= person.H[k].Y[i]

\* The values of the frequency table of a marker.
tableOf(marker) == { stat[marker][i] : i \in 1..Len(stat[marker]) }

\* The values of the table of a marker that are closest to value.
nearestIn(value, marker) ==
    { k \in tableOf(marker) :
        \A j \in tableOf(marker) : Le(AbsQ(Sub(k, value)), AbsQ(Sub(j, value))) }

\* The markers stage 2 left in person.
afterAverage(person) ==
    LET k == CHOOSE j \in 1..Len(person.H) : person.H[j].step = "average"
    IN  person.H[k].Y

\* C14: after stage 4 every positive marker value of the person of every
\* clade is a value of the frequency table of the marker, when the table has
\* values; a marker of the root that stage 2 left positive is the nearest
\* value of the table, the smaller one of two nearest values.
C14_ForcedToRealValues ==
    (pc = "modal" /\ stage = 4) =>
        /\ \A n \in 1..Len(cladesOf(tree)) : \A i \in 1..NumMarkers :
               LET value == cladesOf(tree)[n].Person.Y[i]
               IN  (tableOf(i) /= {} /\ Gt(value, Zero)) => value \in tableOf(i)
        /\ \A i \in 1..NumMarkers :
               (tableOf(i) /= {} /\ Gt(afterAverage(tree.Person)[i], Zero)) =>
                   /\ tree.Person.Y[i] \in nearestIn(afterAverage(tree.Person)[i], i)
                   /\ \A k \in nearestIn(afterAverage(tree.Person)[i], i) :
                          Le(tree.Person.Y[i], k)

\* Stage 4 has run, and a marker of the root and a marker of a subclade
\* that stage 2 left half way between two values of the table hold a value
\* of the table.
C14_Witness ==
    /\ pc = "modal"
    /\ stage = 4
    /\ \E i \in 1..NumMarkers :
           /\ Cardinality(nearestIn(afterAverage(tree.Person)[i], i)) = 2
           /\ tree.Person.Y[i] \in tableOf(i)
    /\ \E n \in 1..Len(tree.Subclades) : \E i \in 1..NumMarkers :
           /\ Cardinality(nearestIn(afterAverage(tree.Subclades[n].Person)[i], i)) = 2
           /\ tree.Subclades[n].Person.Y[i] \in tableOf(i)

-----------------------------------------------------------------------------
(* Properties of the documented runs *)

\* The ages of a clade.
agesOf(c) == <<c.STRCountDownstream, c.TMRCA_STR, c.AgeSTR>>

\* C15: for the tree of doc/examples.tex (a root without STR-Count, two
\* subclades with STR-Count 2 and the samples 30, 40, 50 each) and -cal 100,
\* CalculateAge gives each subclade STRs Downstream 40, TMRCA 4000 and formed
\* 4200, and the root STRs Downstream 42, TMRCA 4200 and formed 4200.
C15_PureMutationCounting ==
    (aged /\ file = exampleFile(Uncertain, 2, 2, <<30, 40, 50>>)
          /\ params.calibration = I(100)) =>
        /\ \A i \in 1..2 : agesOf(tree.Subclades[i]) = <<I(40), I(4000), I(4200)>>
        /\ agesOf(tree) = <<I(42), I(4200), I(4200)>>

\* C16: for a root with STR-Count 0, no subclades and two samples with the
\* STR-Counts 30 and 40, CalculateAge with generation time 32, calibration 1
\* and offset 0 sets STRCountDownstream to 35 and the TMRCA to 1120.
C16_TwoSamples ==
    (aged /\ file = exampleFile(0, 0, 2, <<30, 40>>) /\ params.gentime = I(32)) =>
        /\ tree.STRCountDownstream = I(35)
        /\ tree.TMRCA_STR = I(1120)

\* CalculateAge has run on that root with generation time 32.
C16_Witness ==
    /\ aged
    /\ pc = "tree"
    /\ file = exampleFile(0, 0, 2, <<30, 40>>)
    /\ params = [gentime |-> I(32), calibration |-> One, offset |-> Zero]
    /\ Len(tree.Samples) = 2
    /\ Len(tree.Subclades) = 0
    /\ tree.STRCount = Zero
    /\ tree.TMRCA_STR = I(1120)

\* The markers stage 1 left in person: those before the write of stage 2.
afterParsimony(person) ==
    LET k == CHOOSE j \in 1..Len(person.H) : person.H[j].step = "average"
    IN  person.H[k - 1].Y

\* The positive values of a marker among the samples of c and the subclades
\* of c as stage 2 left them.
positiveChildren(c, marker) ==
    SelectSeq(sampleValues(c.Samples, marker, 1)
                  \o [j \in 1..Len(c.Subclades) |->
                          afterAverage(c.Subclades[j].Person)[marker]],
              isPositive)

meanOf(values) == Div(SumQ(values), I(Len(values)))

\* C17: stage 2 leaves every marker of every clade that was not Uncertain
\* after stage 1 as it was, and sets every marker that was Uncertain to the
\* arithmetic mean of the positive values of the marker among the samples of
\* the clade and its subclades, the subclades as stage 2 left them.
C17_BackfillFrame ==
    (pc = "modal" /\ stage >= 2) =>
        \A n \in 1..Len(cladesOf(tree)) : \A i \in 1..NumMarkers :
            LET c == cladesOf(tree)[n]
                before == afterParsimony(c.Person)[i]
                after == afterAverage(c.Person)[i]
            IN  /\ before /= UncertainQ => after = before
                /\ before = UncertainQ => after = meanOf(positiveChildren(c, i))

\* Stage 2 has set a marker that was Uncertain in a clade and in its subclade
\* to the mean of three values, the mean of the subclade among them.
C17_Witness ==
    /\ pc = "modal"
    /\ stage = 2
    /\ \E n \in 1..Len(cladesOf(tree)) : \E i \in 1..NumMarkers :
           LET c == cladesOf(tree)[n]
           IN  /\ afterParsimony(c.Person)[i] = UncertainQ
               /\ Len(c.Subclades) = 1
               /\ afterParsimony(c.Subclades[1].Person)[i] = UncertainQ
               /\ Len(positiveChildren(c, i)) = 3
               /\ c.Person.Y[i] = meanOf(positiveChildren(c, i))

\* The number of mutations from x to the values, by the model of the run.
mutationsTo(x, values) ==
    SumQ([j \in 1..Len(values) |->
            IF infinite THEN (IF x = values[j] THEN Zero ELSE One)
            ELSE AbsQ(Sub(x, values[j]))])

\* The positive values that need the fewest mutations to all positive values.
mostParsimonious(values) ==
    LET positive == SelectSeq(values, isPositive)
    IN  { positive[j] : j \in { k \in 1..Len(positive) :
            \A l \in 1..Len(positive) :
                Le(mutationsTo(positive[k], positive), mutationsTo(positive[l], positive)) } }

\* No subclade of c has a marker that is Uncertain while the marker of c is
\* positive and one value is the most parsimonious among the value of c and
\* the values of the samples and subclades of the subclade; the same below.
RECURSIVE propagated(_)
propagated(c) ==
    \A n \in 1..Len(c.Subclades) :
        /\ \A i \in 1..NumMarkers :
               LET sub == c.Subclades[n]
               IN  (sub.Person.Y[i] = UncertainQ /\ Gt(c.Person.Y[i], Zero)) =>
                       Cardinality(mostParsimonious(
                           <<c.Person.Y[i]>> \o sampleValues(sub.Samples, i, 1)
                               \o subcladeValues(sub.Subclades, i, 1))) /= 1
        /\ propagated(c.Subclades[n])

\* C18: when stage 1 has finished, no clade has a marker that is Uncertain
\* while the marker of its parent is positive and the parsimony policy would
\* find one value for the value of the parent and the values of the samples
\* and subclades of the clade.
C18_PropagationFixpoint ==
    (pc = "modal" /\ stage = 1) => propagated(tree)

\* Stage 1 has finished: a marker of the root is positive, and the marker of
\* a subclade is Uncertain after it was calculated again with the value of
\* the root, which did not break the tie.
C18_Witness ==
    /\ pc = "modal"
    /\ stage = 1
    /\ \E n \in 1..Len(tree.Subclades) : \E i \in 1..NumMarkers :
           LET sub == tree.Subclades[n]
           IN  /\ Gt(tree.Person.Y[i], Zero)
               /\ sub.Person.Y[i] = UncertainQ
               /\ Len(sub.Person.H) > NumMarkers
               /\ Cardinality(mostParsimonious(
                      <<tree.Person.Y[i]>> \o sampleValues(sub.Samples, i, 1))) = 3

-----------------------------------------------------------------------------
(* Properties of the order of the values and of their frequency *)

\* list in the order p, a permutation of its indices.
permuted(list, p) == [i \in 1..Len(list) |-> list[p[i]]]

\* C19: maxParsimony returns the same value for the values in any order,
\* with both mutation models, and closestKey returns the same result for the
\* keys of the map in any order of iteration.
C19_OrderIndependence ==
    /\ pc = "parsimony" =>
            \A p \in Permutations(1..Len(valuesIn)) :
                maxParsimony(permuted(valuesIn, p), infinite) = modalOut
    /\ pc = "closest" =>
            \A p \in Permutations(1..Len(stat[1])) :
                closestKey(targetIn, permuted(stat[1], p)) = modalOut

\* maxParsimony has returned 2 for the values 1 and 3 of two children and
\* the value 2 of the parent behind them, with the stepwise model.
C19_Witness ==
    /\ pc = "parsimony"
    /\ ~infinite
    /\ valuesIn = <<I(1), I(3), I(2)>>
    /\ modalOut = I(2)
    /\ maxParsimony(<<I(2), I(1), I(3)>>, infinite) = I(2)

\* The number of times value occurs among the contributing values.
occurrences(value) ==
    Cardinality({ i \in 1..Len(contributing) : contributing[i] = value })

\* The contributing values that occur more often than every other one.
mostFrequent ==
    { contributing[i] : i \in { j \in 1..Len(contributing) :
        \A k \in 1..Len(contributing) :
            contributing[k] /= contributing[j]
                => occurrences(contributing[k]) < occurrences(contributing[j]) } }

\* C20: when one contributing value occurs more often than every other one,
\* maxParsimony returns it.
C20_MostFrequent ==
    pc = "parsimony" => \A m \in mostFrequent : modalOut = m

\* C20 as amended: with the infinite alleles model maxParsimony returns the
\* contributing value that occurs more often than every other one; with the
\* stepwise model it returns a value that makes up more than half of the
\* contributing values, such as the one that occurs twice among three.
C20_MostFrequentOrMajority ==
    pc = "parsimony" =>
        \A m \in mostFrequent :
            (infinite \/ 2 * occurrences(m) > Len(contributing)) => modalOut = m

\* maxParsimony has returned, with the stepwise model, the value that occurs
\* twice among three contributing values, and with the infinite alleles model
\* the most frequent of four of which it is not the median.
C20_Witness ==
    /\ pc = "parsimony"
    /\ \/ /\ ~infinite
          /\ contributing = <<I(3), I(1), I(1)>>
          /\ modalOut = I(1)
       \/ /\ infinite
          /\ contributing = <<I(1), I(1), I(2), I(3)>>
          /\ modalOut = I(1)

-----------------------------------------------------------------------------
(* Properties of the structure NewFromFile builds *)

\* The first retained line holds the root Clade; another retained line holds
\* a Clade unless its text contains "id:".
isCladeLine(lines, j) == j = 1 \/ ~ContainsId(lines[j].text)

\* The nearest line in front of line k that holds a Clade and is indented
\* less than line k; 0 when there is none.
parentLine(lines, k) ==
    LET shallower == { j \in 1..(k - 1) :
                         lines[j].indent < lines[k].indent /\ isCladeLine(lines, j) }
    IN  IF shallower = {} THEN 0
        ELSE CHOOSE j \in shallower : \A m \in shallower : m <= j

\* The indent of the first child line of line j: the line that follows it,
\* when that line is indented deeper; -1 when line j has no child line.
firstChildIndent(lines, j) ==
    IF j >= 1 /\ j < Len(lines) /\ lines[j + 1].indent > lines[j].indent
    THEN lines[j + 1].indent
    ELSE -1

wellIndented(lines) ==
    \A k \in 2..Len(lines) :
        /\ lines[k].indent > lines[1].indent
        /\ lines[k].indent = firstChildIndent(lines, parentLine(lines, k))

\* The tree of the element of line j: every later line whose parentLine is j
\* is attached to it, samples and clades each in the order of the lines.
RECURSIVE attach(_, _, _, _)
attach(c, lines, j, k) ==
    IF k > Len(lines) THEN c
    ELSE IF parentLine(lines, k) /= j THEN attach(c, lines, j, k + 1)
    ELSE IF isCladeLine(lines, k)
    THEN attach(AddSubclade(c, attach(newClade(lines[k].text).val, lines, k, k + 1)),
                lines, j, k + 1)
    ELSE attach(AddSample(c, newSampleFromText(lines[k].text).val), lines, j, k + 1)

elementTree(lines) == attach(newClade(lines[1].text).val, lines, 1, 2)

\* The number of elements of a tree: its clades and its samples.
RECURSIVE countElements(_)
RECURSIVE countElementsAll(_, _)
countElementsAll(subclades, i) ==
    IF i > Len(subclades) THEN 0
    ELSE countElements(subclades[i]) + countElementsAll(subclades, i + 1)

countElements(c) == 1 + Len(c.Samples) + countElementsAll(c.Subclades, 1)

\* C21: for a file whose retained lines are well indented, the tree
\* NewFromFile returns has one element for every retained line, each attached
\* to the nearest Clade line in front of it that is indented less, samples
\* and clades in the order of their lines; blank and comment lines make no
\* element.
C21_WellIndentedTree ==
    (pc = "tree" /\ ~aged /\ wellIndented(readLines(file, 1)))
        => /\ countElements(tree) = Len(readLines(file, 1))
           /\ tree = elementTree(readLines(file, 1))

\* The same for files in which every STR-Count is a number.
WellIndentedWellFormedTree ==
    (pc = "tree" /\ ~aged /\ wellIndented(readLines(file, 1)) /\ badLines(file) = {})
        => /\ countElements(tree) = Len(readLines(file, 1))
           /\ tree = elementTree(readLines(file, 1))

\* C27: NewFromFile returns an error or a tree that has one element for every
\* retained line of the file.
C27_NoSilentLoss ==
    (pc = "tree" /\ ~aged) => countElements(tree) = Len(readLines(file, 1))

-----------------------------------------------------------------------------
(* Properties of the written statistics *)

\* The prefixes of the five values prettyPrint writes after a clade.
estimateKeys == {"STRs Downstream:", "formed:", "TMRCA:", "CI:[", "]"}

nonNegativeParams ==
    Ge(params.gentime, Zero) /\ Ge(params.calibration, Zero) /\ Ge(params.offset, Zero)

\* C22: with a generation time, a calibration and an offset that are not
\* negative, each of the five computed values String() writes after a clade
\* (STRs Downstream, formed, TMRCA and the two bounds of the interval) is a
\* number that is not negative.
C22_WrittenValuesNonNegative ==
    (pc \in {"written", "readback"} /\ nonNegativeParams)
        => \A i \in 1..Len(out) : \A j \in 1..Len(out[i].text) :
               out[i].text[j].k \in estimateKeys => Ge(out[i].text[j].v, Zero)

-----------------------------------------------------------------------------
(* Properties of the order of the passes over the tree *)

\* The write number k to the person of c read subclades that had got their
\* write of the same step (and marker) already.
subcladesFirst(c, k) ==
    LET own == c.Person.H[k] IN
    /\ Len(own.seen) = Len(c.Subclades)
    /\ \A i \in 1..Len(c.Subclades) :
           \E j \in 1..own.seen[i] :
               /\ c.Subclades[i].Person.H[j].step = own.step
               /\ c.Subclades[i].Person.H[j].marker = own.marker

\* The write number k to the person of subclade read the person of c when c
\* had got its last write: the forced mapping of the top node or its own
\* recalculation.
parentFirst(c, subclade, k) ==
    /\ subclade.Person.H[k].seen = <<Len(c.Person.H)>>
    /\ c.Person.H[Len(c.Person.H)].step \in {"map", "recalculate"}

\* Stage 1 and stage 2 write to a clade after its subclades, the
\* recalculation of stage 4 after its parent; the same below the clade.
RECURSIVE modalOrder(_)
modalOrder(c) ==
    /\ \A k \in 1..Len(c.Person.H) :
           c.Person.H[k].step \in {"parsimony", "average"} => subcladesFirst(c, k)
    /\ \A i \in 1..Len(c.Subclades) :
           /\ \A k \in 1..Len(c.Subclades[i].Person.H) :
                  c.Subclades[i].Person.H[k].step = "recalculate"
                      => parentFirst(c, c.Subclades[i], k)
           /\ modalOrder(c.Subclades[i])

\* The STRCount of every subclade is its distance to the clade, as
\* CalculateDistances has set it after the call for the subclade, which sets
\* the STRCount of the subclade to 0 and the distances below it.
RECURSIVE distancesOrder(_)
distancesOrder(c) ==
    \A i \in 1..Len(c.Subclades) :
        /\ c.Subclades[i].STRCount =
               distance(c.Subclades[i].Person.Y, c.Person.Y, infinite)
        /\ distancesOrder(c.Subclades[i])

\* The average of every clade is the average of the entries of its samples
\* and of its subclades as CalculateAge has left them.
RECURSIVE ageOrder(_)
ageOrder(c) ==
    LET entries == sampleEntries(c) \o subcladeEntries(c.Subclades, 1) IN
    /\ IF Len(entries) > 0
       THEN /\ c.STRCountDownstream = avg(entries).average
            /\ c.Sigma2 = avg(entries).sigma2
       ELSE c.STRCountDownstream = UncertainQ
    /\ \A i \in 1..Len(c.Subclades) : ageOrder(c.Subclades[i])

\* C23: in the passes from the leaves to the root (stage 1, stage 2,
\* CalculateDistances, CalculateAge) the value of a clade is calculated when
\* the pass has calculated the values of all its subclades, and in the pass
\* of stage 4 from the root to the leaves a clade is calculated again when
\* its parent has got its final values.
C23_TraversalOrder ==
    /\ (pc \in {"modal", "tree"} /\ stage >= 1) => modalOrder(tree)
    /\ (pc = "tree" /\ stage >= 1) => (tree.STRCount = Zero /\ distancesOrder(tree))
    /\ aged => ageOrder(tree)

\* The whole run with stage 4 on a chain of three clades: the clade at the
\* bottom was recalculated after the one in the middle, distances are set
\* and the root has its age.
C23_Witness ==
    /\ pc = "tree"
    /\ aged
    /\ stage = 4
    /\ Len(tree.Subclades) = 1
    /\ Len(tree.Subclades[1].Subclades) = 1
    /\ \E k \in 1..Len(tree.Subclades[1].Subclades[1].Person.H) :
           tree.Subclades[1].Subclades[1].Person.H[k].step = "recalculate"
    /\ Gt(tree.Subclades[1].STRCount, Zero)
    /\ Gt(tree.STRCountDownstream, Zero)
    /\ Len(tree.Person.H) > NumMarkers + 1

-----------------------------------------------------------------------------
(* Properties of the Uncertain sentinel in CalculateAge *)

\* A count that is known, and 0 for the sentinel.
knownOr0(count) == IF isKnown(count) THEN count ELSE Zero

\* C24: the entry CalculateAge adds for a subclade has a total and a variance
\* made of the known values of the subclade alone (its STR-Count, its
\* downstream estimate and the variance of that), the sentinel Uncertain
\* counting as nothing, and its total is greater than 0.
C24_SentinelNeverANumber ==
    aged =>
        \A n \in 1..Len(cladesOf(tree)) :
            \A i \in 1..Len(cladesOf(tree)[n].Subclades) :
                LET sub == cladesOf(tree)[n].Subclades[i]
                    added == subcladeEntries(<<sub>>, 1)
                IN  \A j \in 1..Len(added) :
                        /\ added[j].value = Add(knownOr0(sub.STRCount),
                                                knownOr0(sub.STRCountDownstream))
                        /\ added[j].sigma2 = Add(knownOr0(sub.STRCount), sub.Sigma2)
                        /\ Gt(added[j].value, Zero)

-----------------------------------------------------------------------------
(* Properties of the confidence interval *)

\* The entries CalculateAge has added for c.
entriesOf(c) == sampleEntries(c) \o subcladeEntries(c.Subclades, 1)

\* The number of mutations confidenceIntervals hands to
\* confidenceIntervalsNormal for c.
normalised(c) ==
    IF Lt(c.Sigma2, Zero) THEN NaN
    ELSE Div(Mul(c.STRCountDownstream, c.STRCountDownstream), c.Sigma2)

intervalHolds(c) ==
    /\ Le(c.TMRCAlower, c.TMRCA_STR)
    /\ Le(c.TMRCA_STR, c.TMRCAupper)
    /\ Lt(normalised(c), I(15)) => Floor(normalised(c)) \in 0..14

\* C25: when CalculateAge has set the age fields of a clade, with a
\* generation time and a calibration that are not negative, TMRCAlower <=
\* TMRCA <= TMRCAupper, and the index of the Poisson table is one of 0..14
\* when the table is used.
C25_IntervalHoldsEstimate ==
    (aged /\ pc = "tree" /\ nonNegativeParams) =>
        \A n \in 1..Len(cladesOf(tree)) :
            Len(entriesOf(cladesOf(tree)[n])) > 0 => intervalHolds(cladesOf(tree)[n])

\* The same for the clades whose entries all have a total greater than 0.
IntervalHoldsForPositiveEntries ==
    (aged /\ pc = "tree" /\ nonNegativeParams) =>
        \A n \in 1..Len(cladesOf(tree)) :
            LET entries == entriesOf(cladesOf(tree)[n]) IN
            (Len(entries) > 0 /\ \A j \in 1..Len(entries) : Gt(entries[j].value, Zero))
                => intervalHolds(cladesOf(tree)[n])

\* C26: when CalculateAge has set the age fields of a clade, with a
\* generation time and a calibration that are not negative, the clade was
\* formed no later than its TMRCA: formed >= TMRCA, also for a clade without
\* STR-Count.
C26_FormedBeforeTMRCA ==
    (aged /\ pc = "tree" /\ nonNegativeParams) =>
        \A n \in 1..Len(cladesOf(tree)) :
            Len(entriesOf(cladesOf(tree)[n])) > 0
                => Ge(cladesOf(tree)[n].AgeSTR, cladesOf(tree)[n].TMRCA_STR)

\* The same for the clades that have an STR-Count.
FormedBeforeTMRCAWithCount ==
    (aged /\ pc = "tree" /\ nonNegativeParams) =>
        \A n \in 1..Len(cladesOf(tree)) :
            LET entries == entriesOf(cladesOf(tree)[n]) IN
            (/\ Len(entries) > 0
             /\ \A j \in 1..Len(entries) : Gt(entries[j].value, Zero)
             /\ isKnown(cladesOf(tree)[n].STRCount))
                => Ge(cladesOf(tree)[n].AgeSTR, cladesOf(tree)[n].TMRCA_STR)

-----------------------------------------------------------------------------
(* Properties of the persons of the samples *)

\* The samples of c and of the clades below it.
RECURSIVE samplesIn(_)
RECURSIVE samplesInAll(_, _)
samplesInAll(subclades, i) ==
    IF i > Len(subclades) THEN <<>>
    ELSE samplesIn(subclades[i]) \o samplesInAll(subclades, i + 1)

samplesIn(c) == c.Samples \o samplesInAll(c.Subclades, 1)

\* The objects that the clades of a list hold as persons.
RECURSIVE cladeObjects(_, _)
cladeObjects(clades, i) ==
    IF i > Len(clades) THEN <<>>
    ELSE (IF clades[i].Person.nil THEN <<>> ELSE <<clades[i].Person.ptr>>)
            \o cladeObjects(clades, i + 1)

\* The objects that the samples of a list hold as persons.
sampleObjects(samples) ==
    { samples[i].Person.ptr : i \in { j \in 1..Len(samples) : ~samples[j].Person.nil } }

\* No clade of c holds the person of a sample or of another clade.
ownPersons(c) ==
    LET objects == cladeObjects(cladesOf(c), 1) IN
    /\ \A i \in 1..Len(objects) : \A j \in 1..Len(objects) :
           i /= j => objects[i] /= objects[j]
    /\ \A i \in 1..Len(objects) : objects[i] \notin sampleObjects(samplesIn(c))

-----------------------------------------------------------------------------
(* Properties of the marker values after the averages *)

\* A sample of c or of a clade below it has a value for the marker.
hasSampleValue(c, marker) ==
    \E k \in 1..Len(samplesIn(c)) :
        /\ ~samplesIn(c)[k].Person.nil
        /\ Gt(samplesIn(c)[k].Person.Y[marker], Zero)

\* C29: after stage 2, and after stage 4, every clade below which a sample
\* has a positive value for a marker has a positive value for this marker
\* itself; the value is never 0, also when all subclades of the clade were
\* Uncertain for the marker after stage 1.
C29_NoSlotLeftAbsent ==
    (pc = "modal" /\ stage \in {2, 4}) =>
        \A n \in 1..Len(cladesOf(tree)) : \A marker \in 1..NumMarkers :
            hasSampleValue(cladesOf(tree)[n], marker)
                => Gt(cladesOf(tree)[n].Person.Y[marker], Zero)

\* The same for the clades that got a value other than 0 in stage 1.
NoSlotLeftUncertain ==
    (pc = "modal" /\ stage \in {2, 4}) =>
        \A n \in 1..Len(cladesOf(tree)) : \A marker \in 1..NumMarkers :
            LET c == cladesOf(tree)[n] IN
            (hasSampleValue(c, marker) /\ ~Eq(c.Person.Y[marker], Zero))
                => Gt(c.Person.Y[marker], Zero)

-----------------------------------------------------------------------------
(* Properties of the second call of constrainHaplotype *)

\* C30: for each mapping option, all marker values and every map of marker
\* values, a second call of constrainHaplotype for a person leaves the
\* marker values as the first call has set them.
C30_SnappingIdempotent ==
    [][pc = "constrained" => children'[1].Y = children[1].Y]_vars

\* With markUncertain, the first call has set a marker between two keys to
\* Uncertain and another marker to a key that it was not equal to, and the
\* second call has left both.
C30_Witness ==
    /\ pc = "constrained again"
    /\ mappingIn = markUncertain
    /\ Len(children[1].H) = 2
    /\ \E i \in 1..NumMarkers :
           /\ Gt(valuesIn[i], Zero)
           /\ children[1].H[1].Y[i] = UncertainQ
           /\ children[1].Y[i] = UncertainQ
    /\ \E i \in 1..NumMarkers :
           /\ Gt(valuesIn[i], Zero)
           /\ Gt(children[1].H[1].Y[i], Zero)
           /\ children[1].H[1].Y[i] /= valuesIn[i]
           /\ children[1].Y[i] = children[1].H[1].Y[i]

\* The writes of a step in the history of a person.
writesOfStep(person, step) ==
    SelectSeq(person.H, LAMBDA w : w.step = step)

\* After stage 3 every call of constrainHaplotype for a clade has left the
\* marker values that the first call for the clade has set.
SnappedOnceOrTwice ==
    (pc = "modal" /\ stage = 3) =>
        \A n \in 1..Len(cladesOf(tree)) :
            LET marks == writesOfStep(cladesOf(tree)[n].Person, "mark") IN
            /\ Len(marks) = IF n = Len(cladesOf(tree)) THEN 1 ELSE 2
            /\ \A k \in 1..Len(marks) : marks[k].Y = marks[1].Y
            /\ cladesOf(tree)[n].Person.Y = marks[1].Y

====
